---- MODULE Spec2Model ----
(***************************************************************************)
(* TRIP verifier (trip-verifier crate): chain validation, the Criticality  *)
(* Engine orchestration and the Active Verification session, modelled as   *)
(* state machines.  Seven specifications share one set of variables:       *)
(*   SpecSession     - verification.rs, one VerificationSession and clock  *)
(*   SpecChain       - chain.rs, evidence received and from_breadcrumbs    *)
(*   SpecEngine      - criticality.rs, evaluate on validated chains        *)
(*   SpecVerdict     - criticality.rs, compute_verdict on analysis results *)
(*   SpecHamiltonian - hamiltonian.rs, evaluate_hamiltonian, from_energy   *)
(*   SpecCertificate - certificate.rs, building and encoding a certificate *)
(*   SpecPsd         - psd.rs, optimal_segment_length and compute_psd      *)
(* Times are integers: wall-clock seconds in the session part, and         *)
(* microseconds for breadcrumb timestamps.  Distances are metres.          *)
(***************************************************************************)
EXTENDS Integers, Sequences, FiniteSets, TLC

VARIABLES
    now,        \* wall clock read by Utc::now(), seconds
    session,    \* the VerificationSession held by the verifier
    lastOp,     \* the last call made on the session, its argument and result
    evidence,   \* Vec<Breadcrumb> received so far (input of from_breadcrumbs)
    outcome,    \* Result<BreadcrumbChain> of the last from_breadcrumbs call
    evalCall,   \* the last CriticalityEngine::evaluate call and its Result
    fnCall      \* the last call of one function on its own: arguments, result

vars == <<now, session, lastOp, evidence, outcome, evalCall, fnCall>>

(***************************************************************************)
(* Bounds of the model                                                     *)
(***************************************************************************)
MaxNow == 33
MaxLen == 3
MaxChainLen == 66

(***************************************************************************)
(* verification.rs                                                         *)
(***************************************************************************)
DEFAULT_DEADLINE_SECONDS == 30

Nonces == {"nonce_a", "nonce_b"}
IdentityKeys == {"key_attester"}
StartTimes == {0, 1}
FailReasons == {"Evaluation failed"}

\* SessionState, a closed sum; Failed carries its reason
AwaitingResponse == <<"AwaitingResponse">>
Evaluating == <<"Evaluating">>
Complete == <<"Complete">>
Failed(reason) == <<"Failed", reason>>
IsFailed(st) == st[1] = "Failed"

\* VerificationRequest::with_nonce
VerificationRequest(identity_key, nonce) ==
    [identity_key |-> identity_key, nonce |-> nonce]

\* from_request forgetting the default deadline
from_request_zero_deadline(request, t) ==
    [nonce |-> request.nonce,
     challenge_timestamp |-> t,
     response_deadline_seconds |-> 0]

\* LivenessChallenge::from_request, Utc::now() being t
from_request(request, t) ==
    [nonce |-> request.nonce,
     challenge_timestamp |-> t,
     response_deadline_seconds |-> DEFAULT_DEADLINE_SECONDS]

\* LivenessChallenge::deadline
deadline(challenge) ==
    challenge.challenge_timestamp + challenge.response_deadline_seconds

\* LivenessChallenge::is_expired, Utc::now() being t
is_expired(challenge, t) == t > deadline(challenge)

\* An Ed25519 signature is the pair of the signing key and the signed fields;
\* it verifies under a key exactly when that key produced it over those fields.
ResponseFields(nonce_echo, chain_head_hash, response_timestamp, index) ==
    <<nonce_echo, chain_head_hash, response_timestamp, index>>
SignResponse(key, fields) == <<key, fields>>
SignatureVerifies(response, key) ==
    response.ed25519_signature =
        SignResponse(key, ResponseFields(response.nonce_echo,
                                         response.chain_head_hash,
                                         response.response_timestamp,
                                         response.current_breadcrumb_index))

\* LivenessResponse
LivenessResponse(nonce_echo, response_timestamp, signer) ==
    [nonce_echo |-> nonce_echo,
     chain_head_hash |-> "head",
     response_timestamp |-> response_timestamp,
     current_breadcrumb_index |-> 500,
     ed25519_signature |->
         SignResponse(signer,
                      ResponseFields(nonce_echo, "head", response_timestamp, 500))]

Signers == IdentityKeys \cup {"key_mallory"}

\* the responses an attester (or an impostor) may send to the session
Responses ==
    { LivenessResponse(n, t, k) :
        n \in Nonces,
        t \in {session.challenge.challenge_timestamp,
               deadline(session.challenge) + 1},
        k \in Signers }

NoResponse == LivenessResponse("", 0, "")

\* VerificationSession::new, Utc::now() being t
new(request, t) ==
    [request |-> request,
     challenge |-> from_request(request, t),
     state |-> AwaitingResponse,
     created_at |-> t]

\* validate_response checking the nonce before the deadline
validate_response_nonce_first(s, response, t) ==
    IF response.nonce_echo # s.challenge.nonce
    THEN [state |-> Failed("Nonce mismatch"), ret |-> "NonceMismatch"]
    ELSE IF is_expired(s.challenge, t)
    THEN [state |-> Failed("Deadline expired"), ret |-> "DeadlineExpired"]
    ELSE [state |-> Evaluating, ret |-> "Ok"]

\* validate_response reading the deadline off the response's own timestamp
validate_response_by_response_ts(s, response, t) ==
    IF is_expired(s.challenge, response.response_timestamp)
    THEN [state |-> Failed("Deadline expired"), ret |-> "DeadlineExpired"]
    ELSE IF response.nonce_echo # s.challenge.nonce
    THEN [state |-> Failed("Nonce mismatch"), ret |-> "NonceMismatch"]
    ELSE [state |-> Evaluating, ret |-> "Ok"]

\* the state validate_response leaves and the value it returns
validate_response_result(s, response, t) ==
    IF is_expired(s.challenge, t)
    THEN [state |-> Failed("Deadline expired"), ret |-> "DeadlineExpired"]
    ELSE IF response.nonce_echo # s.challenge.nonce
    THEN [state |-> Failed("Nonce mismatch"), ret |-> "NonceMismatch"]
    ELSE [state |-> Evaluating, ret |-> "Ok"]

Call(op, response, reason, pre, ret) ==
    [op |-> op, response |-> response, reason |-> reason,
     at |-> now, pre |-> pre, ret |-> ret]

\* VerificationSession::validate_response(&mut self, response)
validate_response(response) ==
    LET r == validate_response_result(session, response, now) IN
    /\ session' = [session EXCEPT !.state = r.state]
    /\ lastOp' = Call("validate_response", response, "", session.state, r.ret)
    /\ UNCHANGED <<now, evidence, outcome, evalCall, fnCall>>

\* VerificationSession::complete(&mut self)
complete ==
    /\ session' = [session EXCEPT !.state = Complete]
    /\ lastOp' = Call("complete", NoResponse, "", session.state, "unit")
    /\ UNCHANGED <<now, evidence, outcome, evalCall, fnCall>>

\* VerificationSession::fail(&mut self, reason)
fail(reason) ==
    /\ session' = [session EXCEPT !.state = Failed(reason)]
    /\ lastOp' = Call("fail", NoResponse, reason, session.state, "unit")
    /\ UNCHANGED <<now, evidence, outcome, evalCall, fnCall>>

\* the wall clock advances
Tick ==
    /\ now < MaxNow
    /\ now' = now + 1
    /\ UNCHANGED <<session, lastOp, evidence, outcome, evalCall, fnCall>>

NoEvalCall == [called |-> FALSE]
NoOutcome == [called |-> FALSE]
NoFnCall == [called |-> FALSE]

InitSession ==
    /\ now \in StartTimes
    /\ \E k \in IdentityKeys, n \in Nonces :
          session = new(VerificationRequest(k, n), now)
    /\ lastOp = [op |-> "new", response |-> NoResponse, reason |-> "",
                 at |-> now, pre |-> AwaitingResponse, ret |-> "unit"]
    /\ evidence = <<>>
    /\ outcome = NoOutcome
    /\ evalCall = NoEvalCall
    /\ fnCall = NoFnCall

NextSession ==
    \/ \E response \in Responses : validate_response(response)
    \/ complete
    \/ \E reason \in FailReasons : fail(reason)
    \/ Tick

SpecSession == InitSession /\ [][NextSession]_vars

(***************************************************************************)
(* error.rs: Result and TripError.  A panic of the Rust code (a slice out  *)
(* of range) is the outcome Panic: the call returns no value at all.       *)
(***************************************************************************)
Ok(v) == [ok |-> TRUE, value |-> v]
Err(e) == [ok |-> FALSE, err |-> e]
ChainIntegrity(msg) == [kind |-> "ChainIntegrity", msg |-> msg]
InsufficientBreadcrumbs(got, need) ==
    [kind |-> "InsufficientBreadcrumbs", got |-> got, need |-> need]
PsdError(msg) == [kind |-> "PsdError", msg |-> msg]
LevyFitError(msg) == [kind |-> "LevyFitError", msg |-> msg]
Panic(msg) == [kind |-> "panic", msg |-> msg]

Min(S) == CHOOSE x \in S : \A y \in S : x <= y
Max2(a, b) == IF a >= b THEN a ELSE b

(***************************************************************************)
(* breadcrumb.rs                                                           *)
(* A timestamp is a DateTime<Utc> counted in microseconds.  A hash is a    *)
(* hex String: either the SHA-256 digest of some content or an arbitrary   *)
(* string of the evidence; Option<String> is None or Some(h).              *)
(***************************************************************************)
None == <<"None">>
Some(h) == <<"Some", h>>

Sha256(content) == <<"sha256", content>>
BogusHash == <<"hex", <<"bogus">>>>
ShortHash == <<"hex", <<"abc">>>>
GenesisStr == <<"hex", <<"genesis">>>>
\* String::len of a hash string: a digest is 64 hex characters
HexLen(h) == IF h = ShortHash THEN 3 ELSE 64
\* &h[..k], for k <= h.len()
HexPrefix(h, k) == <<"prefix", k, h>>

\* DateTime::timestamp(): whole seconds since the epoch
unix_seconds(b) == b.timestamp \div 1000000

\* timestamp.format("%Y-%m-%dT%H:%M:%S%.3fZ"): millisecond precision
format_timestamp(ts) == <<"ms", ts \div 1000>>

\* A digest has a fixed size whatever went into it: where a digest is written
\* into a payload, the payload it was computed from is kept with its own
\* prev_hash elided.
Elided == <<"hex", <<"..">>>>
Written(h) ==
    IF h[1] = "sha256"
    THEN <<"sha256", [h[2] EXCEPT ![1] = [h[2][1] EXCEPT ![7] = Elided]]>>
    ELSE h

\* the canonical payload serde_json::json!({...}) of verify_block_hashes
data_to_sign(b) ==
    <<b.index, b.identity_public_key, format_timestamp(b.timestamp),
      b.location_cell, b.location_resolution, b.context_digest,
      IF b.previous_hash = None THEN GenesisStr
      ELSE Written(b.previous_hash[2]),
      b.meta_flags>>

\* An Ed25519 signature over the canonical payload: the pair of the signing
\* key and the payload; it verifies under identity_public_key exactly when
\* that key produced it over this breadcrumb's payload.
SignPayload(key, payload) == <<"ed25519", key, payload>>
signature_verifies(b) ==
    b.signature = SignPayload(b.identity_public_key, data_to_sign(b))

\* SHA-256(dataToSign + ":" + signature).  The payload is written once: the
\* signature string enters the digest as its signing key and whether it is
\* a signature of this very payload.
compute_hash(b) ==
    Sha256(<<data_to_sign(b), b.signature[2],
             b.signature[3] = data_to_sign(b)>>)

\* H3 cells of the model and the position of their centres on a line, in
\* metres; a cell string that does not parse has no centre.
Cells == {"cell_a", "cell_b", "cell_far"}
CellPos(c) == CASE c = "cell_a" -> 0
                [] c = "cell_b" -> 5
                [] c = "cell_far" -> 5000
                [] OTHER -> -1
Abs(x) == IF x < 0 THEN -x ELSE x

\* h3_cell_distance_km, in metres: 0 when either cell cannot be parsed
h3_cell_distance_km(cell_a, cell_b) ==
    IF cell_a \notin Cells THEN 0
    ELSE IF cell_b \notin Cells THEN 0
    ELSE Abs(CellPos(cell_b) - CellPos(cell_a))

\* dt without the floor of 0.001
dt_without_floor(b0, b1) == (unix_seconds(b1) - unix_seconds(b0)) * 1000

\* compute_displacements: dt, kept in milliseconds (0.001 s = 1)
dt(b0, b1) == Max2((unix_seconds(b1) - unix_seconds(b0)) * 1000, 1)

\* compute_displacements
compute_displacements(breadcrumbs) ==
    IF Len(breadcrumbs) < 2 THEN <<>>
    ELSE [i \in 1..(Len(breadcrumbs) - 1) |->
            LET b0 == breadcrumbs[i]
                b1 == breadcrumbs[i + 1]
            IN [dt_seconds |-> dt(b0, b1),
                distance_km |->
                    h3_cell_distance_km(b0.location_cell, b1.location_cell),
                from_cell |-> b0.location_cell,
                to_cell |-> b1.location_cell,
                timestamp |-> b1.timestamp]]

(***************************************************************************)
(* chain.rs                                                                *)
(***************************************************************************)
\* from_breadcrumbs taking the breadcrumbs in the order given
sort_by_key_as_given(bs) == bs

\* slice::sort_by_key(|b| b.index): a stable sort.  The element at input
\* position i goes to the position counting the elements with a smaller key,
\* and those with the same key that come before it.
sort_by_key(bs) ==
    LET n == Len(bs)
        rank(i) == 1 + Cardinality({j \in 1..n :
                           \/ bs[j].index < bs[i].index
                           \/ bs[j].index = bs[i].index /\ j < i})
    IN [k \in 1..n |-> bs[CHOOSE i \in 1..n : rank(i) = k]]

\* BreadcrumbChain::verify_hash_chain
verify_hash_chain(breadcrumbs) ==
    IF breadcrumbs[1].previous_hash # None
    THEN Err(ChainIntegrity(<<"Genesis block has a previous_hash">>))
    ELSE LET broken == {i \in 2..Len(breadcrumbs) :
                          breadcrumbs[i].previous_hash
                              # Some(breadcrumbs[i - 1].block_hash)}
         IN IF broken = {} THEN Ok("unit")
            ELSE LET i == Min(broken)
                     p0 == breadcrumbs[i - 1]
                     p1 == breadcrumbs[i]
                 IN IF p1.previous_hash = None
                    THEN Err(ChainIntegrity(
                             <<"Missing previous_hash at index", p1.index>>))
                    ELSE IF HexLen(p0.block_hash) < 8
                    THEN Err(Panic(<<"byte index 8 is out of range">>))
                    ELSE Err(ChainIntegrity(
                             <<"Hash chain broken at index", p1.index,
                               HexPrefix(p0.block_hash, 8),
                               HexPrefix(p1.previous_hash[2],
                                   IF HexLen(p1.previous_hash[2]) < 8
                                   THEN HexLen(p1.previous_hash[2]) ELSE 8)>>))

\* the index error naming the breadcrumb's index as the expected one
index_gap_got_as_expected(i, b) ==
    Err(ChainIntegrity(<<"Index gap", b.index, b.index, i>>))

\* from_breadcrumbs: "Index gap: expected {i}, got {b.index} at position {i}"
index_gap(i, b) ==
    Err(ChainIntegrity(<<"Index gap", i, b.index, i>>))

\* the timestamp error naming the earlier breadcrumb of the pair
non_monotonic_at_earlier(p0, p1) ==
    Err(ChainIntegrity(<<"Non-monotonic timestamp at index", p0.index,
                         p1.timestamp, p0.timestamp>>))

\* from_breadcrumbs: "Non-monotonic timestamp at index {}: {} <= {}" with
\* pair[1].index, pair[1].timestamp, pair[0].timestamp
non_monotonic(p0, p1) ==
    Err(ChainIntegrity(<<"Non-monotonic timestamp at index", p1.index,
                         p1.timestamp, p0.timestamp>>))

\* from_breadcrumbs verifying the timestamps before the index sequence
from_breadcrumbs_timestamps_first(input) ==
    IF input = <<>> THEN Err(InsufficientBreadcrumbs(0, 1))
    ELSE
    LET breadcrumbs == sort_by_key(input)
        identity == breadcrumbs[1].identity_public_key
        n == Len(breadcrumbs)
        mixed == {i \in 1..n : breadcrumbs[i].identity_public_key # identity}
        gaps == {i \in 1..n : breadcrumbs[i].index # i - 1}
        nonmono == {i \in 2..n :
                      breadcrumbs[i].timestamp <= breadcrumbs[i - 1].timestamp}
        linked == verify_hash_chain(breadcrumbs)
    IN IF mixed # {}
       THEN Err(ChainIntegrity(
                <<"Mixed identities", identity,
                  breadcrumbs[Min(mixed)].identity_public_key>>))
       ELSE IF nonmono # {}
       THEN non_monotonic(breadcrumbs[Min(nonmono) - 1],
                          breadcrumbs[Min(nonmono)])
       ELSE IF gaps # {}
       THEN index_gap(Min(gaps) - 1, breadcrumbs[Min(gaps)])
       ELSE IF ~linked.ok THEN linked
       ELSE Ok([identity |-> identity,
                breadcrumbs |-> breadcrumbs,
                displacements |-> compute_displacements(breadcrumbs),
                chain_verified |-> TRUE])

\* BreadcrumbChain::from_breadcrumbs
from_breadcrumbs(input) ==
    IF input = <<>> THEN Err(InsufficientBreadcrumbs(0, 1))
    ELSE
    LET breadcrumbs == sort_by_key(input)
        identity == breadcrumbs[1].identity_public_key
        n == Len(breadcrumbs)
        mixed == {i \in 1..n : breadcrumbs[i].identity_public_key # identity}
        gaps == {i \in 1..n : breadcrumbs[i].index # i - 1}
        nonmono == {i \in 2..n :
                      breadcrumbs[i].timestamp <= breadcrumbs[i - 1].timestamp}
        linked == verify_hash_chain(breadcrumbs)
    IN IF mixed # {}
       THEN Err(ChainIntegrity(
                <<"Mixed identities", identity,
                  breadcrumbs[Min(mixed)].identity_public_key>>))
       ELSE IF gaps # {}
       THEN index_gap(Min(gaps) - 1, breadcrumbs[Min(gaps)])
       ELSE IF nonmono # {}
       THEN non_monotonic(breadcrumbs[Min(nonmono) - 1],
                          breadcrumbs[Min(nonmono)])
       ELSE IF ~linked.ok THEN linked
       ELSE Ok([identity |-> identity,
                breadcrumbs |-> breadcrumbs,
                displacements |-> compute_displacements(breadcrumbs),
                chain_verified |-> TRUE])

\* BreadcrumbChain::verify_block_hashes
verify_block_hashes(chain) ==
    LET bad == {i \in 1..Len(chain.breadcrumbs) :
                  compute_hash(chain.breadcrumbs[i])
                      # chain.breadcrumbs[i].block_hash}
    IN IF bad = {} THEN Ok("unit")
       ELSE LET b == chain.breadcrumbs[Min(bad)]
            IN IF HexLen(b.block_hash) < 8
               THEN Err(Panic(<<"byte index 8 is out of range">>))
               ELSE Err(ChainIntegrity(
                        <<"Block hash mismatch at index", b.index,
                          HexPrefix(compute_hash(b), 8),
                          HexPrefix(b.block_hash, 8)>>))

\* BreadcrumbChain::len
chain_len(chain) == Len(chain.breadcrumbs)

\* BreadcrumbChain::displacement_series / interval_series
displacement_series(chain) ==
    [i \in 1..Len(chain.displacements) |-> chain.displacements[i].distance_km]
interval_series(chain) ==
    [i \in 1..Len(chain.displacements) |-> chain.displacements[i].dt_seconds]

(***************************************************************************)
(* The evidence: breadcrumbs as an attester, or somebody tampering with    *)
(* the export, may submit them.  Each new breadcrumb continues the last    *)
(* one received, honestly or with one field altered.                       *)
(***************************************************************************)
AttesterKey == "key_attester"
StepMicros == 800000

\* sign the fields of b with key and set its block_hash from the result
Seal(b, key) ==
    LET signed == [b EXCEPT !.signature = SignPayload(key, data_to_sign(b))]
    IN [signed EXCEPT !.block_hash = compute_hash(signed)]

\* the breadcrumb an honest attester appends to ev, located in cell
NextFields(ev, cell) ==
    [index |-> Len(ev),
     identity_public_key |-> AttesterKey,
     timestamp |-> IF ev = <<>> THEN 0
                   ELSE ev[Len(ev)].timestamp + StepMicros,
     location_cell |-> cell,
     location_resolution |-> 10,
     context_digest |-> "ctx",
     previous_hash |-> IF ev = <<>> THEN None
                       ELSE Some(ev[Len(ev)].block_hash),
     meta_flags |-> "meta",
     signature |-> SignPayload("", <<>>),
     block_hash |-> BogusHash]

Honest(ev, cell) == Seal(NextFields(ev, cell), AttesterKey)

Alterations ==
    {"identity", "index_up", "index_down", "ts_equal", "ts_back",
     "prev_none", "prev_wrong", "prev_short",
     "sig_forged", "hash_wrong", "hash_short"}

Altered(ev, kind) ==
    LET f == NextFields(ev, "cell_a")
        h == Honest(ev, "cell_a")
        lastTs == IF ev = <<>> THEN 0 ELSE ev[Len(ev)].timestamp
    IN CASE kind = "identity" ->
              Seal([f EXCEPT !.identity_public_key = "key_other"], "key_other")
         [] kind = "index_up" ->
              Seal([f EXCEPT !.index = f.index + 1], AttesterKey)
         [] kind = "index_down" ->
              Seal([f EXCEPT !.index = Max2(f.index - 1, 0)], AttesterKey)
         [] kind = "ts_equal" ->
              Seal([f EXCEPT !.timestamp = lastTs], AttesterKey)
         [] kind = "ts_back" ->
              Seal([f EXCEPT !.timestamp = Max2(lastTs - 1, 0)], AttesterKey)
         [] kind = "prev_none" ->
              Seal([f EXCEPT !.previous_hash = None], AttesterKey)
         [] kind = "prev_wrong" ->
              Seal([f EXCEPT !.previous_hash = Some(BogusHash)], AttesterKey)
         [] kind = "prev_short" ->
              Seal([f EXCEPT !.previous_hash = Some(ShortHash)], AttesterKey)
         [] kind = "sig_forged" -> Seal(f, "key_mallory")
         [] kind = "hash_wrong" -> [h EXCEPT !.block_hash = BogusHash]
         [] kind = "hash_short" -> [h EXCEPT !.block_hash = ShortHash]

EvidenceCells == {"cell_a", "cell_far"}

Candidates(ev) ==
    {Honest(ev, c) : c \in EvidenceCells} \cup {Altered(ev, k) : k \in Alterations}

\* the orders in which a Vec of n breadcrumbs may be handed over
Orders(n) == {p \in [1..n -> 1..n] : \A i, j \in 1..n : p[i] = p[j] => i = j}
Arrange(ev, p) == [i \in 1..Len(ev) |-> ev[p[i]]]

\* a breadcrumb is received
Receive(b) ==
    /\ Len(evidence) < MaxLen
    /\ evidence' = Append(evidence, b)
    /\ outcome' = NoOutcome
    /\ evalCall' = NoEvalCall
    /\ UNCHANGED <<now, session, lastOp, fnCall>>

\* BreadcrumbChain::from_breadcrumbs is called on the evidence, in some order
FromBreadcrumbs(p) ==
    /\ outcome' = [called |-> TRUE,
                   input |-> Arrange(evidence, p),
                   result |-> from_breadcrumbs(Arrange(evidence, p))]
    /\ UNCHANGED <<now, session, lastOp, evidence, evalCall, fnCall>>

IdleSession ==
    [request |-> VerificationRequest("", ""),
     challenge |-> from_request(VerificationRequest("", ""), 0),
     state |-> AwaitingResponse,
     created_at |-> 0]

InitChain ==
    /\ now = 0
    /\ session = IdleSession
    /\ lastOp = [op |-> "none", response |-> NoResponse, reason |-> "",
                 at |-> 0, pre |-> AwaitingResponse, ret |-> "unit"]
    /\ evidence = <<>>
    /\ outcome = NoOutcome
    /\ evalCall = NoEvalCall
    /\ fnCall = NoFnCall

NextChain ==
    \/ \E b \in Candidates(evidence) : Receive(b)
    \/ \E p \in Orders(Len(evidence)) : FromBreadcrumbs(p)

SpecChain == InitChain /\ [][NextChain]_vars

(***************************************************************************)
(* psd.rs, levy.rs, criticality.rs.  Real numbers are kept in thousandths. *)
(* What the floating-point kernels compute (the FFT, the regression, the   *)
(* quadrature, the Hamiltonian energies) is a numerical outcome num that   *)
(* the evaluation is handed; everything the code decides on counts,        *)
(* lengths and thresholds is computed here as the code computes it.        *)
(***************************************************************************)
MIN_BREADCRUMBS_PSD == 64

\* the default weights with the weight of the flock given to the spatial
\* component
DefaultWeights_flock_to_spatial ==
    [spatial |-> 400, temporal |-> 200, kinetic |-> 150,
     flock |-> 0, contextual |-> 150, structure |-> 100]

\* HamiltonianWeights::default()
DefaultWeights ==
    [spatial |-> 250, temporal |-> 200, kinetic |-> 150,
     flock |-> 150, contextual |-> 150, structure |-> 100]

\* CriticalityConfig::default(); levy_x_min in metres
DefaultConfig ==
    [weights |-> DefaultWeights,
     levy_x_min |-> 10,
     alpha_min |-> 300, alpha_max |-> 800,
     beta_min |-> 800, beta_max |-> 1200]

\* optimal_segment_length
RECURSIVE grow_segment(_, _)
grow_segment(seg, total_samples) ==
    IF seg * 2 <= total_samples \div 2
    THEN grow_segment(seg * 2, total_samples)
    ELSE seg
optimal_segment_length(total_samples) ==
    Max2(grow_segment(64, total_samples), 32)

\* the Welch loop of compute_psd: the number of segments it processes
RECURSIVE count_segments(_, _, _, _)
count_segments(start, segment_len, step, n) ==
    IF start + segment_len <= n
    THEN 1 + count_segments(start + step, segment_len, step, n)
    ELSE 0

\* the spectrum keeping the bins without power
IsAllZero_bins_kept(series) == FALSE

\* a series of 0.0 only: its mean and its centred values are exactly 0.0, so
\* is every FFT output, and no bin passes the filter p > 0.0
IsAllZero(series) == \A i \in 1..Len(series) : series[i] = 0

\* compute_psd
compute_psd(displacements, num) ==
    LET n == Len(displacements)
        segment_len == optimal_segment_length(n)
        overlap == segment_len \div 2
        step == segment_len - overlap
        n_segments == count_segments(0, segment_len, step, n)
        bins == IF IsAllZero(displacements) THEN 0
                ELSE IF num.bins <= segment_len \div 2 THEN num.bins
                ELSE segment_len \div 2
    IN IF n < 32
       THEN Err(PsdError(<<"Need at least 32 displacements", n>>))
       ELSE IF n_segments = 0
       THEN Err(PsdError(<<"No complete segments">>))
       ELSE IF bins < 4
       THEN Err(PsdError(<<"Too few non-zero frequency bins for fitting">>))
       ELSE Ok([alpha |-> num.alpha,
                r_squared |-> num.r_squared,
                num_bins |-> bins])

\* compute_psd_from_chain
compute_psd_from_chain(displacement_km, interval_seconds, num) ==
    IF Len(displacement_km) # Len(interval_seconds)
    THEN Err(PsdError(
             <<"Displacement and interval arrays must be same length">>))
    ELSE compute_psd(displacement_km, num)

\* ln(x / x_min) in thousandths, x_min being 10 m, for the distances between
\* the cells of the model
LnRatio(x) == CASE x = 4995 -> 6214
                [] x = 5000 -> 6215
                [] OTHER -> 0

RECURSIVE SumSeq(_)
SumSeq(xs) == IF xs = <<>> THEN 0 ELSE xs[1] + SumSeq(Tail(xs))

\* fit_levy
fit_levy(displacements, x_min, num) ==
    LET above(d) == d > x_min
        valid == SelectSeq(displacements, above)
        n == Len(valid)
        sum_log == SumSeq([i \in 1..n |-> LnRatio(valid[i])])
    IN IF n < 20
       THEN Err(LevyFitError(
                <<"Need at least 20 displacements above x_min", x_min, n>>))
       ELSE IF sum_log <= 0
       THEN Err(LevyFitError(<<"All displacements equal to x_min">>))
       ELSE Ok([beta |-> (n * 1000000) \div sum_log,
                ks_statistic |-> num.ks,
                n_samples |-> n])

\* convergence_confidence: floor(1000 * (1 - exp(-n / 200))) for n = 0..200
ConfidenceTable ==
    <<
       0, 4, 9, 14, 19, 24, 29, 34, 39, 44, 48, 53, 58, 62, 67,
       72, 76, 81, 86, 90, 95, 99, 104, 108, 113, 117, 121, 126, 130, 134,
       139, 143, 147, 152, 156, 160, 164, 168, 173, 177, 181, 185, 189, 193, 197,
       201, 205, 209, 213, 217, 221, 225, 228, 232, 236, 240, 244, 247, 251, 255,
       259, 262, 266, 270, 273, 277, 281, 284, 288, 291, 295, 298, 302, 305, 309,
       312, 316, 319, 322, 326, 329, 333, 336, 339, 342, 346, 349, 352, 355, 359,
       362, 365, 368, 371, 374, 378, 381, 384, 387, 390, 393, 396, 399, 402, 405,
       408, 411, 414, 417, 420, 423, 425, 428, 431, 434, 437, 440, 442, 445, 448,
       451, 453, 456, 459, 462, 464, 467, 470, 472, 475, 477, 480, 483, 485, 488,
       490, 493, 495, 498, 500, 503, 505, 508, 510, 513, 515, 518, 520, 522, 525,
       527, 529, 532, 534, 536, 539, 541, 543, 546, 548, 550, 552, 555, 557, 559,
       561, 563, 566, 568, 570, 572, 574, 576, 578, 581, 583, 585, 587, 589, 591,
       593, 595, 597, 599, 601, 603, 605, 607, 609, 611, 613, 615, 617, 619, 620,
       622, 624, 626, 628, 630, 632
    >>
convergence_confidence(chain_length) ==
    IF chain_length < Len(ConfidenceTable)
    THEN ConfidenceTable[chain_length + 1]
    ELSE 1000

(***************************************************************************)
(* hamiltonian.rs.  Energies and weights are kept in thousandths,          *)
(* displacements in metres, intervals in milliseconds.                     *)
(***************************************************************************)
\* from_energy counting the boundary values to the lower level
from_energy_boundary_below(h) ==
    IF h <= 300 THEN "Green"
    ELSE IF h <= 600 THEN "Yellow"
    ELSE IF h <= 800 THEN "Orange"
    ELSE "Red"

\* AlertLevel::from_energy
from_energy(h) ==
    IF h < 300 THEN "Green"
    ELSE IF h < 600 THEN "Yellow"
    ELSE IF h < 800 THEN "Orange"
    ELSE "Red"

\* Timelike::hour() of a timestamp.  Timestamps count from an instant one
\* second before the turn of an hour: 10:59:59 UTC.
HourTurnMicros == 1000000
hour(ts) == IF ts < HourTurnMicros THEN 10 ELSE 11

\* f64::sqrt, to the unit below: the largest r with r * r <= v, found one
\* binary digit at a time
RECURSIVE sqrt_from(_, _, _)
sqrt_from(v, r, bit) ==
    IF bit = 0 THEN r
    ELSE IF (r + bit) * (r + bit) <= v THEN sqrt_from(v, r + bit, bit \div 2)
    ELSE sqrt_from(v, r, bit \div 2)
sqrt(v) == sqrt_from(v, 0, 4096)

\* std_dev: the sample standard deviation, 0.0 with fewer than 2 values
std_dev(values, mean) ==
    IF Len(values) < 2 THEN 0
    ELSE sqrt(SumSeq([i \in 1..Len(values) |->
                          (values[i] - mean) * (values[i] - mean)])
              \div (Len(values) - 1))

\* 1 / (1 + exp(-2 d)) for d = -6.0, -5.75, ..., 6.0
SigmoidTable ==
    <<0, 0, 0, 0, 0, 0, 0, 0, 0, 0, 0, 1, 2, 4, 6, 10, 17, 29, 47, 75, 119,
      182, 268, 377, 500, 622, 731, 817, 880, 924, 952, 970, 982, 989, 993,
      995, 997, 998, 999, 999, 999, 999, 999, 999, 999, 999, 999, 999, 999>>

\* sigmoid(x, midpoint), midpoint in units: read off the table at the step
\* below x - midpoint; 1.0 / (1.0 + exp(..)) is exactly 1.0 once exp(..) is
\* below the precision of f64
sigmoid(x, midpoint) ==
    LET d == x - midpoint * 1000
    IN IF d < -6000 THEN 0
       ELSE IF d >= 18500 THEN 1000
       ELSE IF d >= 6000 THEN 999
       ELSE SigmoidTable[(d + 6000) \div 250 + 1]

\* log2 of 1..84
Log2Table ==
    <<0, 1000, 1585, 2000, 2322, 2585, 2807, 3000, 3170, 3322, 3459, 3585,
      3700, 3807, 3907, 4000, 4087, 4170, 4248, 4322, 4392, 4459, 4524, 4585,
      4644, 4700, 4755, 4807, 4858, 4907, 4954, 5000, 5044, 5087, 5129, 5170,
      5209, 5248, 5285, 5322, 5358, 5392, 5426, 5459, 5492, 5524, 5555, 5585,
      5615, 5644, 5672, 5700, 5728, 5755, 5781, 5807, 5833, 5858, 5883, 5907,
      5931, 5954, 5977, 6000, 6022, 6044, 6066, 6087, 6109, 6129, 6150, 6170,
      6190, 6209, 6229, 6248, 6267, 6285, 6304, 6322, 6340, 6358, 6375, 6392>>

\* from_counts counting every transition of the chain, whatever its source
from_counts_of_all(bs, c) == Len(bs) - 1

\* BehavioralProfile::from_chain: from_counts, the transitions out of cell c
from_counts(bs, c) ==
    Cardinality({i \in 1..(Len(bs) - 1) : bs[i].location_cell = c})

\* BehavioralProfile::from_chain.  A HashMap is the function from its keys;
\* a transition probability is kept as the pair of its count and the count
\* of transitions out of its source cell.
from_chain(chain) ==
    LET bs == chain.breadcrumbs
        n == Len(bs)
        cells == {bs[i].location_cell : i \in 1..n}
        visits(c) == Cardinality({i \in 1..n : bs[i].location_cell = c})
        \* ceil(n * 0.05)
        threshold == (n + 19) \div 20
        displacements == displacement_series(chain)
        mean_displacement == IF displacements = <<>> THEN 0
                             ELSE SumSeq(displacements) \div Len(displacements)
        intervals == interval_series(chain)
        mean_interval == IF intervals = <<>> THEN 0
                         ELSE SumSeq(intervals) \div Len(intervals)
        pairs == {<<bs[i].location_cell, bs[i + 1].location_cell>> :
                     i \in 1..(n - 1)}
        transitions(k) ==
            Cardinality({i \in 1..(n - 1) :
                <<bs[i].location_cell, bs[i + 1].location_cell>> = k})
    IN [cell_histogram |-> [c \in cells |-> visits(c)],
        anchor_cells |-> {c \in cells : visits(c) >= threshold},
        mean_displacement_km |-> mean_displacement,
        std_displacement_km |-> std_dev(displacements, mean_displacement),
        \* hourly_profile[h] is hour_counts[h] / max(n, 1)
        hour_counts |-> [h \in 0..23 |->
                            Cardinality({i \in 1..n : hour(bs[i].timestamp) = h})],
        n |-> Max2(n, 1),
        mean_interval_seconds |-> mean_interval,
        std_interval_seconds |-> std_dev(intervals, mean_interval),
        transition_matrix |->
            [k \in pairs |-> <<transitions(k), from_counts(bs, k[1])>>]]

\* compute_h_spatial; prev is None for the genesis breadcrumb
compute_h_spatial(current, prev, profile) ==
    IF prev = None THEN 0
    ELSE LET dist == h3_cell_distance_km(prev[2].location_cell,
                                         current.location_cell)
         IN IF profile.std_displacement_km < 1 THEN 0
            ELSE sigmoid((Abs(dist - profile.mean_displacement_km) * 1000)
                             \div profile.std_displacement_km, 3)

\* compute_h_temporal with a genesis breadcrumb scored 0.0
compute_h_temporal_genesis_zero(current, profile) ==
    IF current.index = 0 THEN 0
    ELSE LET count == profile.hour_counts[hour(current.timestamp)]
         IN IF count * 1000 < profile.n THEN 800
            ELSE 1000 - Min({1000, (count * 24000) \div profile.n})

\* compute_h_temporal: hour_activity < 0.001 gives 0.8, otherwise
\* 1.0 - (hour_activity * 24.0).min(1.0)
compute_h_temporal(current, profile) ==
    LET count == profile.hour_counts[hour(current.timestamp)]
    IN IF count * 1000 < profile.n THEN 800
       ELSE 1000 - Min({1000, (count * 24000) \div profile.n})

\* compute_h_kinetic
compute_h_kinetic(current, prev, profile) ==
    IF prev = None THEN 0
    ELSE LET key == <<prev[2].location_cell, current.location_cell>>
         IN IF key \in DOMAIN profile.transition_matrix
               /\ profile.transition_matrix[key][1] > 0
            THEN LET prob == profile.transition_matrix[key]
                     \* -log2(count / total)
                     surprise == Log2Table[prob[2]] - Log2Table[prob[1]]
                 IN sigmoid(surprise, 5)
            ELSE 700

\* compute_h_flock
compute_h_flock(current) == 0

\* compute_h_contextual
compute_h_contextual(current, prev) ==
    IF prev = None THEN 0
    ELSE IF current.location_cell # prev[2].location_cell
            /\ current.context_digest = prev[2].context_digest
    THEN 600
    ELSE 0

\* compute_h_structure
compute_h_structure(current, prev, profile) ==
    IF prev = None THEN 0
    ELSE IF profile.std_interval_seconds < 1 THEN 0
    ELSE sigmoid((Abs(dt(prev[2], current) - profile.mean_interval_seconds)
                      * 1000) \div profile.std_interval_seconds, 3)

\* evaluate_hamiltonian: the HamiltonianScore of breadcrumb i
score_of(chain, i, profile, weights) ==
    LET breadcrumb == chain.breadcrumbs[i]
        prev == IF i > 1 THEN Some(chain.breadcrumbs[i - 1]) ELSE None
        h_spatial == compute_h_spatial(breadcrumb, prev, profile)
        h_temporal == compute_h_temporal(breadcrumb, profile)
        h_kinetic == compute_h_kinetic(breadcrumb, prev, profile)
        h_flock == compute_h_flock(breadcrumb)
        h_contextual == compute_h_contextual(breadcrumb, prev)
        h_structure == compute_h_structure(breadcrumb, prev, profile)
        h_total == (weights.spatial * h_spatial
                    + weights.temporal * h_temporal
                    + weights.kinetic * h_kinetic
                    + weights.flock * h_flock
                    + weights.contextual * h_contextual
                    + weights.structure * h_structure) \div 1000
    IN [index |-> breadcrumb.index,
        h_spatial |-> h_spatial,
        h_temporal |-> h_temporal,
        h_kinetic |-> h_kinetic,
        h_flock |-> h_flock,
        h_contextual |-> h_contextual,
        h_structure |-> h_structure,
        h_total |-> h_total,
        alert_level |-> from_energy(h_total)]

\* evaluate_hamiltonian: alert_count, one increment per breadcrumb scored
alert_count(scores, level) ==
    Cardinality({i \in 1..Len(scores) : scores[i].alert_level = level})

\* evaluate_hamiltonian
evaluate_hamiltonian(chain, profile, weights) ==
    LET scores == [i \in 1..chain_len(chain) |->
                      score_of(chain, i, profile, weights)]
        totals == [i \in 1..Len(scores) |-> scores[i].h_total]
    IN [scores |-> scores,
        mean_energy |-> IF scores = <<>> THEN 0
                        ELSE SumSeq(totals) \div Len(scores),
        max_energy |-> IF scores = <<>> THEN 0
                       ELSE CHOOSE h \in {totals[i] : i \in 1..Len(totals)} :
                                \A i \in 1..Len(totals) : totals[i] <= h,
        alert_count |-> [green |-> alert_count(scores, "Green"),
                         yellow |-> alert_count(scores, "Yellow"),
                         orange |-> alert_count(scores, "Orange"),
                         red |-> alert_count(scores, "Red")]]

\* f64 NaN, the value of 0.0 / 0.0: a value outside the range of every real
\* number of the model; arithmetic on it gives NaN again, and
\* f64::clamp leaves it as it is
NaN == -999999999

\* compute_verdict: the PSD check
psd_pass(config, psd) ==
    /\ psd.alpha >= config.alpha_min
    /\ psd.alpha <= config.alpha_max
    /\ psd.r_squared >= 500

\* compute_verdict: the Levy check
levy_pass(config, levy) ==
    /\ levy.beta >= config.beta_min
    /\ levy.beta <= config.beta_max
    /\ levy.ks_statistic < 150

\* compute_verdict: the Hamiltonian check, red / max(len, 1) < 0.05
hamiltonian_pass(hamiltonian) ==
    /\ hamiltonian.mean_energy < 400
    /\ hamiltonian.alert_count.red * 100
           < 5 * Max2(Len(hamiltonian.scores), 1)

\* compute_verdict: (1 - |x - center| / range) * quality, with
\* center = (lo + hi) / 2 and range = (hi - lo) / 2.  It is evaluated only for
\* lo <= x <= hi; when range is 0.0 the distance is 0.0 / 0.0.
closeness(x, lo, hi, quality) ==
    IF hi = lo THEN NaN
    ELSE (((hi - lo) - Abs(2 * x - (lo + hi))) * quality) \div (hi - lo)

\* is_human deciding on the three analyses alone
is_human_without_confidence(psd_ok, levy_ok, ham_ok, confidence_ok) ==
    psd_ok /\ levy_ok /\ ham_ok

\* compute_verdict: is_human
is_human(psd_ok, levy_ok, ham_ok, confidence_ok) ==
    psd_ok /\ levy_ok /\ ham_ok /\ confidence_ok

\* the Hamiltonian sub-score with no credit for a failed check
ham_score_zero_when_failed(hamiltonian) ==
    IF hamiltonian_pass(hamiltonian)
    THEN 1000 - hamiltonian.mean_energy
    ELSE 0

\* let ham_score = if hamiltonian_pass { .. } else { .. }
ham_score(hamiltonian) ==
    IF hamiltonian_pass(hamiltonian)
    THEN 1000 - hamiltonian.mean_energy
    ELSE (Max2(400 - hamiltonian.mean_energy, 0) * 1000) \div 400

\* CriticalityEngine::compute_verdict
compute_verdict(config, psd, levy, hamiltonian, chain_length) ==
    LET confidence == convergence_confidence(chain_length)
        confidence_sufficient == confidence >= 500
        psd_score ==
            IF psd_pass(config, psd)
            THEN closeness(psd.alpha, config.alpha_min, config.alpha_max,
                           psd.r_squared)
            ELSE 0
        levy_score ==
            IF levy_pass(config, levy)
            THEN closeness(levy.beta, config.beta_min, config.beta_max,
                           1000 - levy.ks_statistic)
            ELSE 0
        \* thousandths of a point: [0, 100] is 0..100000
        raw_score == IF psd_score = NaN \/ levy_score = NaN THEN NaN
                     ELSE 40 * psd_score + 25 * levy_score
                          + 25 * ham_score(hamiltonian)
                          + 10 * confidence
        trust_score == IF raw_score = NaN THEN NaN
                       ELSE IF raw_score < 0 THEN 0
                       ELSE IF raw_score > 100000 THEN 100000
                       ELSE raw_score
    IN [psd_pass |-> psd_pass(config, psd),
        levy_pass |-> levy_pass(config, levy),
        hamiltonian_pass |-> hamiltonian_pass(hamiltonian),
        confidence_sufficient |-> confidence_sufficient,
        confidence |-> confidence,
        psd_score |-> psd_score,
        levy_score |-> levy_score,
        ham_score |-> ham_score(hamiltonian),
        trust_score |-> trust_score,
        is_human |-> is_human(psd_pass(config, psd), levy_pass(config, levy),
                              hamiltonian_pass(hamiltonian),
                              confidence_sufficient)]

\* evaluate running the Levy fit before the PSD analysis
evaluate_levy_first(config, chain, num) ==
    LET displacement_km == displacement_series(chain)
        interval_seconds == interval_series(chain)
        psd_result == compute_psd_from_chain(displacement_km,
                                             interval_seconds, num)
        levy_result == fit_levy(displacement_km, config.levy_x_min, num)
        profile == from_chain(chain)
        hamiltonian_result == evaluate_hamiltonian(chain, profile,
                                                   config.weights)
        verdict == compute_verdict(config, psd_result.value, levy_result.value,
                                   hamiltonian_result, chain_len(chain))
    IN IF chain_len(chain) < MIN_BREADCRUMBS_PSD
       THEN [stages |-> <<>>,
             result |-> Err(InsufficientBreadcrumbs(chain_len(chain),
                                                    MIN_BREADCRUMBS_PSD))]
       ELSE IF ~levy_result.ok
       THEN [stages |-> <<"levy">>, result |-> levy_result]
       ELSE IF ~psd_result.ok
       THEN [stages |-> <<"levy", "psd">>, result |-> psd_result]
       ELSE [stages |-> <<"psd", "levy", "profile", "hamiltonian", "verdict">>,
             result |-> Ok([psd |-> psd_result.value,
                            levy |-> levy_result.value,
                            hamiltonian |-> hamiltonian_result,
                            trust_score |-> verdict.trust_score,
                            confidence |-> verdict.confidence,
                            chain_length |-> chain_len(chain),
                            is_human |-> verdict.is_human,
                            verdict |-> verdict])]

\* evaluate leaving the length check to the PSD analysis
evaluate_without_length_check(config, chain, num) ==
    LET displacement_km == displacement_series(chain)
        interval_seconds == interval_series(chain)
        psd_result == compute_psd_from_chain(displacement_km,
                                             interval_seconds, num)
        levy_result == fit_levy(displacement_km, config.levy_x_min, num)
        profile == from_chain(chain)
        hamiltonian_result == evaluate_hamiltonian(chain, profile,
                                                   config.weights)
        verdict == compute_verdict(config, psd_result.value, levy_result.value,
                                   hamiltonian_result, chain_len(chain))
    IN IF ~psd_result.ok
       THEN [stages |-> <<"psd">>, result |-> psd_result]
       ELSE IF ~levy_result.ok
       THEN [stages |-> <<"psd", "levy">>, result |-> levy_result]
       ELSE [stages |-> <<"psd", "levy", "profile", "hamiltonian", "verdict">>,
             result |-> Ok([psd |-> psd_result.value,
                            levy |-> levy_result.value,
                            hamiltonian |-> hamiltonian_result,
                            trust_score |-> verdict.trust_score,
                            confidence |-> verdict.confidence,
                            chain_length |-> chain_len(chain),
                            is_human |-> verdict.is_human,
                            verdict |-> verdict])]

\* CriticalityEngine::evaluate, with the stages it ran
evaluate(config, chain, num) ==
    LET displacement_km == displacement_series(chain)
        interval_seconds == interval_series(chain)
        psd_result == compute_psd_from_chain(displacement_km,
                                             interval_seconds, num)
        levy_result == fit_levy(displacement_km, config.levy_x_min, num)
        profile == from_chain(chain)
        hamiltonian_result == evaluate_hamiltonian(chain, profile,
                                                   config.weights)
        verdict == compute_verdict(config, psd_result.value, levy_result.value,
                                   hamiltonian_result, chain_len(chain))
    IN IF chain_len(chain) < MIN_BREADCRUMBS_PSD
       THEN [stages |-> <<>>,
             result |-> Err(InsufficientBreadcrumbs(chain_len(chain),
                                                    MIN_BREADCRUMBS_PSD))]
       ELSE IF ~psd_result.ok
       THEN [stages |-> <<"psd">>, result |-> psd_result]
       ELSE IF ~levy_result.ok
       THEN [stages |-> <<"psd", "levy">>, result |-> levy_result]
       ELSE [stages |-> <<"psd", "levy", "profile", "hamiltonian", "verdict">>,
             result |-> Ok([psd |-> psd_result.value,
                            levy |-> levy_result.value,
                            hamiltonian |-> hamiltonian_result,
                            trust_score |-> verdict.trust_score,
                            confidence |-> verdict.confidence,
                            chain_length |-> chain_len(chain),
                            is_human |-> verdict.is_human,
                            verdict |-> verdict])]

(***************************************************************************)
(* Evidence for the engine: honest chains of a given length in which the   *)
(* attester moves between two cells for the first `moves` steps and then   *)
(* stays.                                                                  *)
(***************************************************************************)
CellAt(i, moves) ==
    LET k == IF i <= moves THEN i ELSE moves
    IN IF k % 2 = 1 THEN "cell_far" ELSE "cell_a"

\* the honest breadcrumb of index i.  A breadcrumb takes from the one before
\* it only its timestamp and its block_hash, and a block_hash takes from the
\* chain before it only the payload of the breadcrumb before, so breadcrumb
\* i is what an attester appends to breadcrumbs i - 2 and i - 1.
Stub(ts) == [timestamp |-> ts, block_hash |-> BogusHash]
\* i breadcrumbs of which the last one is prev
EndingWith(i, prev) == [k \in 1..i |-> IF k = i THEN prev ELSE Stub(0)]
Link0(i, moves) ==
    Honest(EndingWith(i, Stub((i - 1) * StepMicros)), CellAt(i, moves))
Link1(i, moves) ==
    IF i = 0 THEN Link0(0, moves)
    ELSE Honest(EndingWith(i, Link0(i - 1, moves)), CellAt(i, moves))
Link2(i, moves) ==
    IF i = 0 THEN Link0(0, moves)
    ELSE Honest(EndingWith(i, Link1(i - 1, moves)), CellAt(i, moves))

Trajectory(n, moves) == [i \in 1..n |-> Link2(i - 1, moves)]

ChainLens == {1, 2, 63, 64, 65, MaxChainLen}
MoveCounts == {0, 19, 20, 64}

Numerics ==
    [bins : {0, 3, 4, 32},
     alpha : {50, 550},
     r_squared : {900},
     ks : {100}]

\* from_breadcrumbs is called on the evidence as exported
Validate ==
    /\ ~outcome.called
    /\ outcome' = [called |-> TRUE,
                   input |-> evidence,
                   result |-> from_breadcrumbs(evidence)]
    /\ UNCHANGED <<now, session, lastOp, evidence, evalCall, fnCall>>

\* CriticalityEngine::with_defaults().evaluate(&chain)
Evaluate(num) ==
    /\ outcome.called
    /\ outcome.result.ok
    /\ LET r == evaluate(DefaultConfig, outcome.result.value, num)
       IN evalCall' = [called |-> TRUE,
                       num |-> num,
                       stages |-> r.stages,
                       result |-> r.result]
    /\ UNCHANGED <<now, session, lastOp, evidence, outcome, fnCall>>

InitEngine ==
    /\ now = 0
    /\ session = IdleSession
    /\ lastOp = [op |-> "none", response |-> NoResponse, reason |-> "",
                 at |-> 0, pre |-> AwaitingResponse, ret |-> "unit"]
    /\ \E n \in ChainLens, moves \in MoveCounts :
          evidence = Trajectory(n, moves)
    /\ outcome = NoOutcome
    /\ evalCall = NoEvalCall
    /\ fnCall = NoFnCall

NextEngine ==
    \/ \E b \in Candidates(evidence) : Receive(b)
    \/ Validate
    \/ \E num \in Numerics : Evaluate(num)

SpecEngine == InitEngine /\ [][NextEngine]_vars

(***************************************************************************)
(* compute_verdict on its own: a configuration, the results of the three   *)
(* analyses and a chain length, on and next to every threshold the verdict *)
(* compares them with.                                                     *)
(***************************************************************************)
\* CriticalityConfig: the default, a narrower band, bands of width zero,
\* and other Hamiltonian weights
Configs ==
    {DefaultConfig,
     [DefaultConfig EXCEPT !.alpha_min = 500, !.alpha_max = 600,
                           !.beta_min = 900, !.beta_max = 1000],
     [DefaultConfig EXCEPT !.alpha_min = 550, !.alpha_max = 550],
     [DefaultConfig EXCEPT !.beta_min = 1000, !.beta_max = 1000],
     [DefaultConfig EXCEPT !.weights =
         [spatial |-> 0, temporal |-> 1000, kinetic |-> 0,
          flock |-> 0, contextual |-> 0, structure |-> 0]]}

PsdResults ==
    [alpha : {299, 300, 550, 800, 801}, r_squared : {499, 500, 1000},
     num_bins : {32}]
LevyResults ==
    [beta : {799, 800, 1000, 1200, 1201}, ks_statistic : {0, 149, 150},
     n_samples : {63}]
\* a ChainHamiltonianResult of chain_length scores, red of them Red
HamiltonianResult(chain_length, mean_energy, red) ==
    [scores |-> [i \in 1..chain_length |->
                    IF i <= red THEN "Red" ELSE "Green"],
     mean_energy |-> mean_energy,
     max_energy |-> mean_energy,
     alert_count |-> [green |-> chain_length - red, yellow |-> 0,
                      orange |-> 0, red |-> red]]
\* red alerts just under and at one in twenty of the scores
HamiltonianResults(chain_length) ==
    {HamiltonianResult(chain_length, mean_energy, red) :
        mean_energy \in {0, 399, 400, 500},
        red \in {0, (chain_length - 1) \div 20, (chain_length + 19) \div 20}}

\* self.compute_verdict(&psd_result, &levy_result, &hamiltonian_result, len)
ComputeVerdict ==
    /\ ~fnCall.called
    /\ fnCall' = [fnCall EXCEPT
                    !.called = TRUE,
                    !.result = compute_verdict(fnCall.config, fnCall.psd,
                                               fnCall.levy, fnCall.hamiltonian,
                                               fnCall.chain_length)]
    /\ UNCHANGED <<now, session, lastOp, evidence, outcome, evalCall>>

NoVerdict == compute_verdict(DefaultConfig,
                             [alpha |-> 0, r_squared |-> 0, num_bins |-> 0],
                             [beta |-> 0, ks_statistic |-> 0, n_samples |-> 0],
                             HamiltonianResult(0, 0, 0),
                             0)

InitVerdict ==
    /\ now = 0
    /\ session = IdleSession
    /\ lastOp = [op |-> "none", response |-> NoResponse, reason |-> "",
                 at |-> 0, pre |-> AwaitingResponse, ret |-> "unit"]
    /\ evidence = <<>>
    /\ outcome = NoOutcome
    /\ evalCall = NoEvalCall
    /\ \E config \in Configs, psd \in PsdResults, levy \in LevyResults,
          n \in {64, 138, 139, 200} :
          \E hamiltonian \in HamiltonianResults(n) :
             fnCall = [called |-> FALSE, config |-> config, psd |-> psd,
                       levy |-> levy, hamiltonian |-> hamiltonian,
                       chain_length |-> n, result |-> NoVerdict]

NextVerdict == ComputeVerdict

SpecVerdict == InitVerdict /\ [][NextVerdict]_vars

(***************************************************************************)
(* certificate.rs: the PoH certificate and its CBOR encoding.  Floats are  *)
(* thousandths, issued_at is in milliseconds, hex text is a string and     *)
(* bytes are a sequence of numbers.                                        *)
(***************************************************************************)
CertificateError(msg) == [kind |-> "CertificateError", msg |-> msg]

\* hex::decode: two digits of either case to one byte, an error otherwise
hex_decode(text) ==
    CASE text = "aaaa" -> Ok(<<170, 170>>)
      [] text = "AAAA" -> Ok(<<170, 170>>)
      [] text = "bbbb" -> Ok(<<187, 187>>)
      [] text = "cccc" -> Ok(<<204, 204>>)
      [] text = "dddd" -> Ok(<<221, 221>>)
      [] OTHER -> Err("InvalidHexCharacter")

\* ciborium::Value, the three variants the encoder builds
Integer(n) == [kind |-> "Integer", num |-> n, bytes |-> <<>>]
Float(x) == [kind |-> "Float", num |-> x, bytes |-> <<>>]
Bytes(b) == [kind |-> "Bytes", num |-> 0, bytes |-> b]

\* f64 as i64: toward zero, NaN to 0
as_i64(x) ==
    IF x = NaN THEN 0
    ELSE IF x >= 0 THEN x \div 1000 ELSE -((-x) \div 1000)

\* DateTime::timestamp(): whole Unix seconds
timestamp(t) == t \div 1000

from_criticality_result(result, identity_key, verifier_key, unique_cells, chain_head_hash, valid_seconds, utc_now) ==
    [identity_key |-> identity_key,
     alpha |-> result.psd.alpha,
     beta |-> result.levy.beta,
     kappa |-> result.levy.kappa_km,
     trust_score |-> result.trust_score,
     confidence |-> result.confidence,
     chain_length |-> result.chain_length,
     unique_cells |-> unique_cells,
     mean_hamiltonian |-> result.hamiltonian.mean_energy,
     verifier_key |-> verifier_key,
     issued_at |-> utc_now,
     valid_seconds |-> valid_seconds,
     nonce |-> None,
     chain_head_hash |-> Some(chain_head_hash),
     verifier_signature |-> None]

with_nonce_unset(cert, nonce) == cert

with_nonce(cert, nonce) == [cert EXCEPT !.nonce = Some(nonce)]

is_active_verification(cert) == cert.nonce # None

to_cbor_signable(cert) ==
    LET id == hex_decode(cert.identity_key)
        vk == hex_decode(cert.verifier_key)
        hash == IF cert.chain_head_hash = None THEN Ok(<<>>)
                ELSE hex_decode(cert.chain_head_hash[2])
        \* the entries pushed for keys 0 to 11
        fixed_entries ==
            <<<<0, Bytes(id.value)>>,
              <<1, Float(cert.alpha)>>,
              <<2, Float(cert.beta)>>,
              <<3, Float(cert.kappa)>>,
              <<4, Integer(as_i64(cert.trust_score))>>,
              <<5, Float(cert.confidence)>>,
              <<6, Integer(cert.chain_length)>>,
              <<7, Integer(cert.unique_cells)>>,
              <<8, Float(cert.mean_hamiltonian)>>,
              <<9, Bytes(vk.value)>>,
              <<10, Integer(timestamp(cert.issued_at))>>,
              <<11, Integer(cert.valid_seconds)>>>>
    IN IF ~id.ok THEN Err(CertificateError("Invalid identity hex"))
       ELSE IF ~vk.ok THEN Err(CertificateError("Invalid verifier hex"))
       ELSE IF ~hash.ok THEN Err(CertificateError("Invalid hash hex"))
       ELSE Ok(fixed_entries
               \o (IF cert.nonce # None
                   THEN <<<<12, Bytes(cert.nonce[2])>>>> ELSE <<>>)
               \o (IF cert.chain_head_hash # None
                   THEN <<<<13, Bytes(hash.value)>>>> ELSE <<>>))

to_cbor(cert) == to_cbor_signable(cert)

\* Reading the wire layout back into a certificate: the value under each
\* key goes to the field of that key, an absent optional key gives None.
HasKey(map, k) == \E i \in 1..Len(map) : map[i][1] = k
ValueAt(map, k) == map[CHOOSE i \in 1..Len(map) : map[i][1] = k][2]
from_cbor(map) ==
    LET \* hex::encode: lower-case digits
        hex_encode(bytes) ==
            CASE bytes = <<170, 170>> -> "aaaa"
              [] bytes = <<187, 187>> -> "bbbb"
              [] bytes = <<204, 204>> -> "cccc"
              [] bytes = <<221, 221>> -> "dddd"
              [] OTHER -> ""
    IN
    [identity_key |-> hex_encode(ValueAt(map, 0).bytes),
     alpha |-> ValueAt(map, 1).num,
     beta |-> ValueAt(map, 2).num,
     kappa |-> ValueAt(map, 3).num,
     trust_score |-> ValueAt(map, 4).num * 1000,
     confidence |-> ValueAt(map, 5).num,
     chain_length |-> ValueAt(map, 6).num,
     unique_cells |-> ValueAt(map, 7).num,
     mean_hamiltonian |-> ValueAt(map, 8).num,
     verifier_key |-> hex_encode(ValueAt(map, 9).bytes),
     issued_at |-> ValueAt(map, 10).num * 1000,
     valid_seconds |-> ValueAt(map, 11).num,
     nonce |-> IF HasKey(map, 12)
               THEN Some(ValueAt(map, 12).bytes) ELSE None,
     chain_head_hash |-> IF HasKey(map, 13)
                         THEN Some(hex_encode(ValueAt(map, 13).bytes))
                         ELSE None,
     verifier_signature |-> IF HasKey(map, 14)
                            THEN Some(hex_encode(ValueAt(map, 14).bytes))
                            ELSE None]

(***************************************************************************)
(* Certificates on their own: built from an engine result or read from     *)
(* JSON, given a nonce, and encoded.                                       *)
(***************************************************************************)
\* the fields of a CriticalityResult the certificate copies
CriticalityResults ==
    {[psd |-> [alpha |-> 550],
      levy |-> [beta |-> 1000, kappa_km |-> 50000],
      trust_score |-> t,
      confidence |-> 850,
      chain_length |-> 300,
      hamiltonian |-> [mean_energy |-> 150]] : t \in {75000, 75500, NaN}}

NoCertificateCall ==
    LET none == from_criticality_result(
                    CHOOSE r \in CriticalityResults : r.trust_score = 75000,
                    "", "", 0, "", 0, 0)
    IN [called |-> FALSE, fn |-> "none", built_by |-> "none",
        cert |-> none, head_passed |-> "", nonce_passed |-> None,
        encoded |-> Err(CertificateError("")), parsed |-> none]

\* PoHCertificate::from_criticality_result(&result, identity_key,
\* verifier_key, unique_cells, chain_head_hash, valid_seconds)
FromCriticalityResult(result, identity_key, chain_head_hash, utc_now) ==
    /\ fnCall.built_by = "none"
    /\ fnCall' = [fnCall EXCEPT
                    !.called = TRUE,
                    !.fn = "from_criticality_result",
                    !.built_by = "from_criticality_result",
                    !.head_passed = chain_head_hash,
                    !.cert = from_criticality_result(
                                 result, identity_key, "bbbb", 42,
                                 chain_head_hash, 3600, utc_now)]
    /\ UNCHANGED <<now, session, lastOp, evidence, outcome, evalCall>>

\* a certificate read by serde (derive Deserialize): every field as given
Deserialize(cert) ==
    /\ fnCall.built_by = "none"
    /\ fnCall' = [fnCall EXCEPT
                    !.called = TRUE,
                    !.fn = "deserialize",
                    !.built_by = "deserialize",
                    !.cert = cert]
    /\ UNCHANGED <<now, session, lastOp, evidence, outcome, evalCall>>

\* cert.with_nonce(nonce)
WithNonce(nonce) ==
    /\ fnCall.fn = "from_criticality_result"
    /\ fnCall' = [fnCall EXCEPT
                    !.fn = "with_nonce",
                    !.nonce_passed = Some(nonce),
                    !.cert = with_nonce(fnCall.cert, nonce)]
    /\ UNCHANGED <<now, session, lastOp, evidence, outcome, evalCall>>

\* cert.to_cbor_signable()
ToCborSignable ==
    /\ fnCall.fn \in {"from_criticality_result", "deserialize", "with_nonce"}
    /\ fnCall' = [fnCall EXCEPT
                    !.fn = "to_cbor_signable",
                    !.encoded = to_cbor_signable(fnCall.cert)]
    /\ UNCHANGED <<now, session, lastOp, evidence, outcome, evalCall>>

\* cert.to_cbor(), and the bytes read back
ToCbor ==
    /\ fnCall.fn \in {"from_criticality_result", "deserialize", "with_nonce"}
    /\ LET bytes == to_cbor(fnCall.cert)
       IN fnCall' = [fnCall EXCEPT
                       !.fn = "to_cbor",
                       !.encoded = bytes,
                       !.parsed = IF bytes.ok THEN from_cbor(bytes.value)
                                  ELSE NoCertificateCall.parsed]
    /\ UNCHANGED <<now, session, lastOp, evidence, outcome, evalCall>>

\* certificates as JSON carries them: signed or not, with or without the
\* optional fields
Deserialized ==
    {[from_criticality_result(CHOOSE r \in CriticalityResults :
                                  r.trust_score = 75000,
                              "aaaa", "bbbb", 42, "cccc", 3600, 5000)
      EXCEPT !.nonce = nonce, !.chain_head_hash = hash,
             !.verifier_signature = sig] :
        nonce \in {None, Some(<<1, 2>>), Some(<<3, 4>>)},
        hash \in {None, Some("cccc")},
        sig \in {None, Some("dddd")}}

InitCertificate ==
    /\ now = 0
    /\ session = IdleSession
    /\ lastOp = [op |-> "none", response |-> NoResponse, reason |-> "",
                 at |-> 0, pre |-> AwaitingResponse, ret |-> "unit"]
    /\ evidence = <<>>
    /\ outcome = NoOutcome
    /\ evalCall = NoEvalCall
    /\ fnCall = NoCertificateCall

NextCertificate ==
    \/ \E result \in CriticalityResults,
          identity_key \in {"aaaa", "AAAA", "zz"},
          chain_head_hash \in {"cccc", "zz"}, utc_now \in {5000, 5250} :
          FromCriticalityResult(result, identity_key, chain_head_hash, utc_now)
    \/ \E cert \in Deserialized : Deserialize(cert)
    \/ \E nonce \in {<<1, 2>>, <<3, 4>>} : WithNonce(nonce)
    \/ ToCborSignable
    \/ ToCbor

SpecCertificate == InitCertificate /\ [][NextCertificate]_vars

(***************************************************************************)
(* The PSD stage on its own: optimal_segment_length on every series length *)
(* up to MaxSeries, and compute_psd on series around the powers of two.    *)
(***************************************************************************)
MaxSeries == 1030

\* a series of n displacements in metres, every other one a move
Series(n) == [i \in 1..n |-> IF i % 2 = 1 THEN 5000 ELSE 0]

NoPsdCall ==
    [called |-> FALSE, fn |-> "none", n |-> 0, segment_len |-> 0,
     n_segments |-> 0, result |-> Err(PsdError(<<"">>))]

\* optimal_segment_length(n)
OptimalSegmentLength(n) ==
    /\ ~fnCall.called
    /\ fnCall' = [fnCall EXCEPT
                    !.called = TRUE,
                    !.fn = "optimal_segment_length",
                    !.n = n,
                    !.segment_len = optimal_segment_length(n)]
    /\ UNCHANGED <<now, session, lastOp, evidence, outcome, evalCall>>

\* compute_psd(&displacements, dt_mean)
ComputePsd(n, num) ==
    /\ ~fnCall.called
    /\ LET segment_len == optimal_segment_length(n)
       IN fnCall' = [fnCall EXCEPT
                       !.called = TRUE,
                       !.fn = "compute_psd",
                       !.n = n,
                       !.segment_len = segment_len,
                       !.n_segments =
                           count_segments(0, segment_len,
                                          segment_len - segment_len \div 2, n),
                       !.result = compute_psd(Series(n), num)]
    /\ UNCHANGED <<now, session, lastOp, evidence, outcome, evalCall>>

InitPsd ==
    /\ now = 0
    /\ session = IdleSession
    /\ lastOp = [op |-> "none", response |-> NoResponse, reason |-> "",
                 at |-> 0, pre |-> AwaitingResponse, ret |-> "unit"]
    /\ evidence = <<>>
    /\ outcome = NoOutcome
    /\ evalCall = NoEvalCall
    /\ fnCall = NoPsdCall

NextPsd ==
    \/ \E n \in 16..MaxSeries : OptimalSegmentLength(n)
    \/ \E n \in {31, 32, 33, 63, 64, 65, 127, 128, 255, 256, 257, 512, 1024},
          num \in Numerics : ComputePsd(n, num)

SpecPsd == InitPsd /\ [][NextPsd]_vars

(***************************************************************************)
(* The Hamiltonian on its own: validated chains, scored against the        *)
(* profile built from them under several weightings, and from_energy on    *)
(* and around its thresholds.                                              *)
(***************************************************************************)

\* HamiltonianWeights: the default, and all the weight on one component
WeightSets ==
    {DefaultWeights,
     [spatial |-> 0, temporal |-> 1000, kinetic |-> 0,
      flock |-> 0, contextual |-> 0, structure |-> 0],
     [spatial |-> 0, temporal |-> 0, kinetic |-> 0,
      flock |-> 0, contextual |-> 1000, structure |-> 0],
     [spatial |-> 0, temporal |-> 0, kinetic |-> 0,
      flock |-> 0, contextual |-> 500, structure |-> 0]}


\* a profile kept from an earlier chain: one move, then rest
EarlierProfile == from_chain(from_breadcrumbs(Trajectory(64, 1)).value)

NoHamiltonianCall ==
    [called |-> FALSE, fn |-> "none", weights |-> DefaultWeights,
     own_profile |-> TRUE,
     energy |-> 0, result |-> HamiltonianResult(0, 0, 0), level |-> "Green"]

\* BehavioralProfile::from_chain(chain), then evaluate_hamiltonian(chain,
\* &profile, &weights); the profile is that of the chain scored, as in
\* evaluate, or one built from an earlier chain of one move and then rest
EvaluateHamiltonian(weights, own_profile) ==
    /\ ~fnCall.called
    /\ outcome.called
    /\ outcome.result.ok
    /\ fnCall' = [called |-> TRUE, fn |-> "evaluate_hamiltonian",
                  weights |-> weights, own_profile |-> own_profile,
                  energy |-> 0,
                  result |-> evaluate_hamiltonian(
                                 outcome.result.value,
                                 IF own_profile
                                 THEN from_chain(outcome.result.value)
                                 ELSE EarlierProfile,
                                 weights),
                  level |-> "Green"]
    /\ UNCHANGED <<now, session, lastOp, evidence, outcome, evalCall>>

\* AlertLevel::from_energy(h)
FromEnergy(h) ==
    /\ ~fnCall.called
    /\ fnCall' = [called |-> TRUE, fn |-> "from_energy",
                  weights |-> DefaultWeights, own_profile |-> TRUE,
                  energy |-> h,
                  result |-> HamiltonianResult(0, 0, 0),
                  level |-> from_energy(h)]
    /\ UNCHANGED <<now, session, lastOp, evidence, outcome, evalCall>>

InitHamiltonian ==
    /\ now = 0
    /\ session = IdleSession
    /\ lastOp = [op |-> "none", response |-> NoResponse, reason |-> "",
                 at |-> 0, pre |-> AwaitingResponse, ret |-> "unit"]
    /\ \E n \in {1, 2, 3, 64, 80}, moves \in MoveCounts \cup {1, 2} :
          /\ evidence = Trajectory(n, moves)
          /\ outcome = [called |-> TRUE,
                        input |-> evidence,
                        result |-> from_breadcrumbs(evidence)]
    /\ evalCall = NoEvalCall
    /\ fnCall = NoHamiltonianCall

NextHamiltonian ==
    \/ \E weights \in WeightSets, own_profile \in BOOLEAN :
          EvaluateHamiltonian(weights, own_profile)
    \/ \E h \in {0, 299, 300, 301, 599, 600, 601, 799, 800, 801, 1000,
                 2500} : FromEnergy(h)

SpecHamiltonian == InitHamiltonian /\ [][NextHamiltonian]_vars

(***************************************************************************)
(* Properties of the Active Verification session (SpecSession)             *)
(***************************************************************************)
ValidateCalled == lastOp.op = "validate_response"
ChallengeDeadline == session.challenge.challenge_timestamp + 30
EchoMatches == lastOp.response.nonce_echo = session.challenge.nonce

\* C2: once a session is Failed, no validate_response / complete / fail call
\* moves it out of Failed (to Evaluating or Complete).
C2_FailedIsTerminal ==
    [][IsFailed(session.state) => IsFailed(session.state')]_vars

\* C3: validate_response reports DeadlineExpired with state
\* Failed("Deadline expired") when the deadline has passed, otherwise
\* NonceMismatch with state Failed("Nonce mismatch") when the echo differs;
\* the deadline check comes first, and no error leaves the state Evaluating.
C3_ErrorsRecorded ==
    ValidateCalled =>
        /\ lastOp.at > ChallengeDeadline =>
              /\ lastOp.ret = "DeadlineExpired"
              /\ session.state = Failed("Deadline expired")
        /\ (lastOp.at <= ChallengeDeadline /\ ~EchoMatches) =>
              /\ lastOp.ret = "NonceMismatch"
              /\ session.state = Failed("Nonce mismatch")
        /\ lastOp.ret \in {"DeadlineExpired", "NonceMismatch"} =>
              session.state # Evaluating

C3_Witness ==
    /\ ValidateCalled
    /\ lastOp.at > ChallengeDeadline
    /\ ~EchoMatches
    /\ lastOp.ret = "DeadlineExpired"

\* C4: a session is Evaluating after validate_response only if the response's
\* signature verifies under the identity_key of the request.
C4_EvaluatingOnlyIfSigned ==
    (ValidateCalled /\ session.state = Evaluating) =>
        SignatureVerifies(lastOp.response, session.request.identity_key)

\* C6: a new session is AwaitingResponse, its challenge carries the request's
\* nonce and a deadline 30 s after challenge_timestamp, and is not expired at
\* creation; a response before the deadline that echoes the nonce is accepted
\* and moves AwaitingResponse to Evaluating.
C6_NewSessionAndAccept ==
    /\ session.challenge.nonce = session.request.nonce
    /\ deadline(session.challenge) = ChallengeDeadline
    /\ lastOp.op = "new" =>
          /\ session.state = AwaitingResponse
          /\ ~is_expired(session.challenge, lastOp.at)
    /\ (/\ ValidateCalled
        /\ lastOp.pre = AwaitingResponse
        /\ lastOp.at < ChallengeDeadline
        /\ EchoMatches) =>
          /\ lastOp.ret = "Ok"
          /\ session.state = Evaluating

C6_Witness ==
    /\ ValidateCalled
    /\ lastOp.pre = AwaitingResponse
    /\ lastOp.at < ChallengeDeadline
    /\ lastOp.at > session.created_at
    /\ EchoMatches
    /\ lastOp.ret = "Ok"
    /\ session.state = Evaluating

\* C7: a response processed at exactly the deadline instant is rejected with
\* DeadlineExpired.
C7_RejectedAtDeadline ==
    (ValidateCalled /\ lastOp.at = ChallengeDeadline) =>
        lastOp.ret = "DeadlineExpired"

\* C8 (as stated): a response echoing the nonce whose response_timestamp is
\* later than challenge_timestamp + 30 s gets DeadlineExpired, whatever the
\* wall-clock time of processing.
C8_ResponseTimestampDecides ==
    (/\ ValidateCalled
     /\ EchoMatches
     /\ lastOp.response.response_timestamp > ChallengeDeadline) =>
        lastOp.ret = "DeadlineExpired"

\* C8 (amended): validate_response returns DeadlineExpired exactly when the
\* wall-clock time of processing is later than challenge_timestamp + 30 s,
\* whatever response_timestamp the response carries.
C8_WallClockDecides ==
    ValidateCalled =>
        (lastOp.ret = "DeadlineExpired" <=> lastOp.at > ChallengeDeadline)

C8_Witness ==
    /\ ValidateCalled
    /\ EchoMatches
    /\ lastOp.at > ChallengeDeadline
    /\ lastOp.response.response_timestamp <= ChallengeDeadline
    /\ lastOp.ret = "DeadlineExpired"

(***************************************************************************)
(* Properties of chain validation (SpecChain)                              *)
(***************************************************************************)
\* the chain invariants 1-4 on a sequence ordered by index
SameIdentity(bs) ==
    \A i \in 1..Len(bs) :
        bs[i].identity_public_key = bs[1].identity_public_key
DenseIndices(bs) == \A i \in 1..Len(bs) : bs[i].index = i - 1
StrictlyLater(bs) ==
    \A i \in 1..(Len(bs) - 1) : bs[i + 1].timestamp > bs[i].timestamp
HashLinked(bs) ==
    /\ bs[1].previous_hash = None
    /\ \A i \in 2..Len(bs) :
          /\ bs[i].previous_hash # None
          /\ bs[i].previous_hash[2] = bs[i - 1].block_hash
IsOrderedByIndex(bs) ==
    \A i \in 1..(Len(bs) - 1) : bs[i].index <= bs[i + 1].index
IsArrangementOf(bs, input) ==
    /\ Len(bs) = Len(input)
    /\ \E p \in Orders(Len(input)) : bs = Arrange(input, p)
StructurallyValid(input) ==
    /\ input # <<>>
    /\ \E p \in Orders(Len(input)) :
          LET bs == Arrange(input, p)
          IN /\ IsOrderedByIndex(bs)
             /\ SameIdentity(bs)
             /\ DenseIndices(bs)
             /\ StrictlyLater(bs)
             /\ HashLinked(bs)

\* C1: from_breadcrumbs returns a chain exactly when the input is non-empty
\* and, ordered by index, satisfies the identity, index, timestamp and
\* hash-link invariants; the empty input is rejected with
\* InsufficientBreadcrumbs{got: 0, need: 1} and every other violation with
\* ChainIntegrity.
C1_AllOrNothing ==
    outcome.called =>
        /\ outcome.result.ok <=> StructurallyValid(outcome.input)
        /\ outcome.input = <<>> =>
              outcome.result = Err(InsufficientBreadcrumbs(0, 1))
        /\ (outcome.input # <<>> /\ ~StructurallyValid(outcome.input)) =>
              /\ ~outcome.result.ok
              /\ outcome.result.err.kind = "ChainIntegrity"

\* C5: every chain from_breadcrumbs accepts has, for every breadcrumb, a
\* block_hash equal to the hash recomputed from payload and signature, and a
\* signature that verifies under identity_public_key.
C5_AcceptedChainIsAuthentic ==
    (outcome.called /\ outcome.result.ok) =>
        \A i \in 1..Len(outcome.result.value.breadcrumbs) :
            LET b == outcome.result.value.breadcrumbs[i]
            IN /\ compute_hash(b) = b.block_hash
               /\ signature_verifies(b)

\* the result of from_breadcrumbs on the last input handed over in order p
Rearranged(p) == from_breadcrumbs(Arrange(outcome.input, p))

\* C13: from_breadcrumbs treats its input as an unordered bag: every
\* permutation of an input is accepted or rejected as the input is, and the
\* accepted chains have the same identity, the same breadcrumbs in index order
\* and the same displacements.
C13_OrderDoesNotMatter ==
    outcome.called =>
        \A p \in Orders(Len(outcome.input)) :
            /\ Rearranged(p).ok = outcome.result.ok
            /\ outcome.result.ok =>
                  /\ Rearranged(p).value.identity
                         = outcome.result.value.identity
                  /\ Rearranged(p).value.breadcrumbs
                         = outcome.result.value.breadcrumbs
                  /\ Rearranged(p).value.displacements
                         = outcome.result.value.displacements
                  /\ IsOrderedByIndex(outcome.result.value.breadcrumbs)
            /\ ~outcome.result.ok =>
                  Rearranged(p).err.kind = outcome.result.err.kind

\* three breadcrumbs handed over out of index order are accepted
C13_Witness ==
    /\ outcome.called
    /\ Len(outcome.input) = 3
    /\ outcome.input[1].index > outcome.input[2].index
    /\ outcome.result.ok
    /\ outcome.result.value.breadcrumbs # outcome.input
    /\ Len(outcome.result.value.displacements) = 2

\* the last input in index order, and the positions (from 1) at which each
\* check of from_breadcrumbs finds a violation
InIndexOrder == sort_by_key(outcome.input)
Rejected == outcome.called /\ outcome.input # <<>> /\ ~outcome.result.ok
MixedAt ==
    {i \in 1..Len(InIndexOrder) :
        InIndexOrder[i].identity_public_key
            # InIndexOrder[1].identity_public_key}
GapAt == {i \in 1..Len(InIndexOrder) : InIndexOrder[i].index # i - 1}
NonMonotonicAt ==
    {i \in 2..Len(InIndexOrder) :
        InIndexOrder[i].timestamp <= InIndexOrder[i - 1].timestamp}
UnlinkedAt ==
    {i \in 1..Len(InIndexOrder) :
        IF i = 1 THEN InIndexOrder[1].previous_hash # None
        ELSE InIndexOrder[i].previous_hash
                 # Some(InIndexOrder[i - 1].block_hash)}
\* the lowest position, counted from 0, at which any invariant is violated
FirstOffender ==
    Min(MixedAt \cup GapAt \cup NonMonotonicAt \cup UnlinkedAt) - 1
\* the position, counted from 0, of the breadcrumb an error refers to
ReportedPosition ==
    LET msg == outcome.result.err.msg
    IN CASE msg[1] = "Mixed identities" -> Min(MixedAt) - 1
         [] msg[1] = "Index gap" -> msg[4]
         [] msg[1] = "Genesis block has a previous_hash" -> 0
         [] OTHER -> msg[2]

\* C14 (as stated): the error of from_breadcrumbs refers to the lowest
\* position, in index order, at which any of the identity, index, timestamp
\* or hash-link invariants is violated.
C14_FirstOffendingIndex ==
    (Rejected /\ outcome.result.err.kind = "ChainIntegrity") =>
        ReportedPosition = FirstOffender

\* C14 (amended): the checks run in the order identity, index sequence,
\* timestamps, hash links, each over the whole chain in index order; the
\* error is that of the first check that fails and names the first breadcrumb
\* failing that check.  Where the hash-link error is due and the preceding
\* block_hash is shorter than 8 characters, the call panics.
C14_FirstFailingCheck ==
    Rejected =>
        LET bs == InIndexOrder
            err == outcome.result.err
            msg == outcome.result.err.msg
        IN IF MixedAt # {}
           THEN /\ err.kind = "ChainIntegrity"
                /\ msg[1] = "Mixed identities"
                /\ msg[2] = bs[1].identity_public_key
                /\ msg[3] = bs[Min(MixedAt)].identity_public_key
           ELSE IF GapAt # {}
           THEN /\ err.kind = "ChainIntegrity"
                /\ msg[1] = "Index gap"
                /\ msg[4] = Min(GapAt) - 1
           ELSE IF NonMonotonicAt # {}
           THEN /\ err.kind = "ChainIntegrity"
                /\ msg[1] = "Non-monotonic timestamp at index"
                /\ msg[2] = Min(NonMonotonicAt) - 1
           ELSE /\ UnlinkedAt # {}
                /\ LET i == Min(UnlinkedAt)
                   IN IF i = 1
                      THEN msg[1] = "Genesis block has a previous_hash"
                      ELSE IF bs[i].previous_hash = None
                      THEN /\ msg[1] = "Missing previous_hash at index"
                           /\ msg[2] = i - 1
                      ELSE IF HexLen(bs[i - 1].block_hash) < 8
                      THEN err.kind = "panic"
                      ELSE /\ msg[1] = "Hash chain broken at index"
                           /\ msg[2] = i - 1

\* timestamps are violated at position 1, indices at position 2, and the
\* error is the index gap at position 2
C14_Witness ==
    /\ Rejected
    /\ MixedAt = {}
    /\ 2 \in NonMonotonicAt
    /\ GapAt = {3}
    /\ outcome.result.err.msg[1] = "Index gap"
    /\ outcome.result.err.msg[4] = 2

\* C15: for an input of one identity whose indices in order are not
\* 0, 1, ..., n-1, from_breadcrumbs fails with ChainIntegrity("Index gap:
\* expected i, got x at position i"), i being the smallest position whose
\* breadcrumb index x differs from i.
C15_IndexGapMessage ==
    (/\ outcome.called
     /\ outcome.input # <<>>
     /\ MixedAt = {}
     /\ GapAt # {}) =>
        LET i == Min(GapAt) - 1
            x == InIndexOrder[Min(GapAt)].index
        IN outcome.result = Err(ChainIntegrity(<<"Index gap", i, x, i>>))

\* indices [0, 1, 3]: "Index gap: expected 2, got 3 at position 2"
C15_Witness ==
    /\ outcome.called
    /\ Len(outcome.input) = 3
    /\ MixedAt = {}
    /\ {InIndexOrder[i].index : i \in 1..3} = {0, 1, 3}
    /\ outcome.result = Err(ChainIntegrity(<<"Index gap", 2, 3, 2>>))

\* C16 (as stated): for an input of one identity and dense indices with some
\* timestamp[i+1] <= timestamp[i], the error is ChainIntegrity with the
\* message "Non-monotonic timestamp at index k", k the index of the later
\* breadcrumb of the first such pair.
C16_NonMonotonicMessage ==
    (/\ outcome.called
     /\ outcome.input # <<>>
     /\ MixedAt = {}
     /\ GapAt = {}
     /\ NonMonotonicAt # {}) =>
        outcome.result =
            Err(ChainIntegrity(<<"Non-monotonic timestamp at index",
                                 Min(NonMonotonicAt) - 1>>))

\* C16 (amended): the message is "Non-monotonic timestamp at index k: t1 <=
\* t0", k being the index of the later breadcrumb of the first such pair, t1
\* its timestamp and t0 the timestamp of the breadcrumb before it.
C16_NonMonotonicMessageWithTimes ==
    (/\ outcome.called
     /\ outcome.input # <<>>
     /\ MixedAt = {}
     /\ GapAt = {}
     /\ NonMonotonicAt # {}) =>
        LET k == Min(NonMonotonicAt)
        IN outcome.result =
               Err(ChainIntegrity(<<"Non-monotonic timestamp at index",
                                    k - 1,
                                    InIndexOrder[k].timestamp,
                                    InIndexOrder[k - 1].timestamp>>))

\* timestamps [t, t + s, t + s]: the error names index 2
C16_Witness ==
    /\ outcome.called
    /\ Len(outcome.input) = 3
    /\ MixedAt = {}
    /\ GapAt = {}
    /\ NonMonotonicAt = {3}
    /\ InIndexOrder[3].timestamp = InIndexOrder[2].timestamp
    /\ ~outcome.result.ok
    /\ outcome.result.err.msg[1] = "Non-monotonic timestamp at index"
    /\ outcome.result.err.msg[2] = 2

\* C17: a validated chain of n breadcrumbs carries exactly n - 1
\* displacements, displacement i joining breadcrumbs i and i + 1 (from_cell
\* and to_cell are their cells, timestamp is that of the later one), and
\* every dt_seconds is greater than 0.
C17_DisplacementsJoinNeighbours ==
    (outcome.called /\ outcome.result.ok) =>
        LET bs == outcome.result.value.breadcrumbs
            ds == outcome.result.value.displacements
        IN /\ Len(ds) = Len(bs) - 1
           /\ \A i \in 1..Len(ds) :
                 /\ ds[i].from_cell = bs[i].location_cell
                 /\ ds[i].to_cell = bs[i + 1].location_cell
                 /\ ds[i].timestamp = bs[i + 1].timestamp
                 /\ ds[i].dt_seconds > 0

\* a validated chain of three breadcrumbs, two of them less than a second
\* apart within the same second of the clock
C17_Witness ==
    /\ outcome.called
    /\ outcome.result.ok
    /\ Len(outcome.result.value.breadcrumbs) = 3
    /\ Len(outcome.result.value.displacements) = 2
    /\ \E i \in 1..2 :
          /\ unix_seconds(outcome.result.value.breadcrumbs[i])
                 = unix_seconds(outcome.result.value.breadcrumbs[i + 1])
          /\ outcome.result.value.displacements[i].dt_seconds > 0

(***************************************************************************)
(* Properties of the Criticality Engine (SpecEngine)                       *)
(***************************************************************************)
EvaluatedChain == outcome.result.value
EvaluatedPsd ==
    compute_psd_from_chain(displacement_series(EvaluatedChain),
                           interval_series(EvaluatedChain), evalCall.num)
EvaluatedLevy ==
    fit_levy(displacement_series(EvaluatedChain), 10, evalCall.num)
AllStages == <<"psd", "levy", "profile", "hamiltonian", "verdict">>

\* C9: evaluate returns Ok exactly when the chain has at least 64 breadcrumbs
\* and both the PSD analysis and the Levy fit succeed, and then every stage
\* has run; otherwise it returns the error of the first failing stage in the
\* order length, PSD, Levy.  Ok does not depend on is_human.
C9_NoPartialResult ==
    evalCall.called =>
        LET n == Len(EvaluatedChain.breadcrumbs)
        IN /\ evalCall.result.ok <=>
                  (n >= 64 /\ EvaluatedPsd.ok /\ EvaluatedLevy.ok)
           /\ n < 64 => evalCall.result.err.kind = "InsufficientBreadcrumbs"
           /\ (n >= 64 /\ ~EvaluatedPsd.ok) =>
                  evalCall.result = EvaluatedPsd
           /\ (n >= 64 /\ EvaluatedPsd.ok /\ ~EvaluatedLevy.ok) =>
                  evalCall.result = EvaluatedLevy
           /\ evalCall.result.ok =>
                  /\ evalCall.stages = AllStages
                  /\ evalCall.result.value.psd = EvaluatedPsd.value
                  /\ evalCall.result.value.levy = EvaluatedLevy.value
                  /\ evalCall.result.value.is_human \in BOOLEAN

C9_Witness ==
    /\ evalCall.called
    /\ Len(EvaluatedChain.breadcrumbs) >= 64
    /\ ~EvaluatedPsd.ok
    /\ ~EvaluatedLevy.ok
    /\ evalCall.result.err.kind = "PsdError"

\* a successful evaluation whose verdict is not human
C9_OkNotHuman ==
    /\ evalCall.called
    /\ evalCall.result.ok
    /\ ~evalCall.result.value.is_human

\* C10: for every validated chain of length n < 64, the single-breadcrumb
\* chain included, evaluate returns InsufficientBreadcrumbs{got: n, need: 64}
\* and runs no analysis; a lone genesis breadcrumb is accepted by the
\* validator, with no displacement.
C10_ShortChainRejected ==
    /\ (evalCall.called /\ Len(EvaluatedChain.breadcrumbs) < 64) =>
          /\ evalCall.result =
                 Err(InsufficientBreadcrumbs(Len(EvaluatedChain.breadcrumbs),
                                             64))
          /\ evalCall.stages = <<>>
    /\ (/\ outcome.called
        /\ Len(outcome.input) = 1
        /\ outcome.input[1].index = 0
        /\ outcome.input[1].previous_hash = None) =>
          /\ outcome.result.ok
          /\ outcome.result.value.displacements = <<>>

C10_Witness ==
    /\ evalCall.called
    /\ Len(EvaluatedChain.breadcrumbs) = 1
    /\ EvaluatedChain.displacements = <<>>
    /\ evalCall.result = Err(InsufficientBreadcrumbs(1, 64))

\* every breadcrumb of the evaluated chain is in the same cell
StationaryChain ==
    /\ evalCall.called
    /\ Len(EvaluatedChain.breadcrumbs) >= 64
    /\ \A i \in 1..Len(EvaluatedChain.displacements) :
          EvaluatedChain.displacements[i].distance_km = 0

\* C19 (as stated): on an all-zero displacement series the PSD analysis
\* succeeds with alpha close to 0, and it is the Levy fit that fails.
C19_ZeroSeriesLevyFails ==
    StationaryChain =>
        /\ EvaluatedPsd.ok
        /\ evalCall.result.err.kind = "LevyFitError"

\* C19 (amended): on an all-zero displacement series the PSD analysis fails,
\* with "No complete segments" below 64 displacements and "Too few non-zero
\* frequency bins for fitting" from 64 on; evaluate returns that PsdError
\* without running the Levy fit, which on its own fails on such a series
\* for having no sample above x_min.
C19_ZeroSeriesPsdFails ==
    StationaryChain =>
        /\ evalCall.result =
              Err(PsdError(IF Len(EvaluatedChain.displacements) < 64
                           THEN <<"No complete segments">>
                           ELSE <<"Too few non-zero frequency bins for fitting">>))
        /\ evalCall.stages = <<"psd">>
        /\ EvaluatedLevy =
              Err(LevyFitError(<<"Need at least 20 displacements above x_min",
                                 10, 0>>))

C19_Witness ==
    /\ StationaryChain
    /\ Len(EvaluatedChain.displacements) = 64
    /\ evalCall.num.bins >= 4
    /\ evalCall.result =
          Err(PsdError(<<"Too few non-zero frequency bins for fitting">>))

(***************************************************************************)
(* Properties of the verdict (SpecVerdict)                                 *)
(***************************************************************************)
VerdictPsdHolds ==
    /\ fnCall.config.alpha_min <= fnCall.psd.alpha
    /\ fnCall.psd.alpha <= fnCall.config.alpha_max
    /\ fnCall.psd.r_squared >= 500
VerdictLevyHolds ==
    /\ fnCall.config.beta_min <= fnCall.levy.beta
    /\ fnCall.levy.beta <= fnCall.config.beta_max
    /\ fnCall.levy.ks_statistic < 150
\* mean_energy < 0.4 and red_count / total < 0.05, total being positive
VerdictHamiltonianHolds ==
    /\ fnCall.hamiltonian.mean_energy < 400
    /\ 20 * fnCall.hamiltonian.alert_count.red
           < Len(fnCall.hamiltonian.scores)
\* 1 - exp(-n / 200) >= 0.5 exactly from n = 139 on (200 ln 2 = 138.6)
VerdictConfidenceHolds == fnCall.chain_length >= 139

\* C11: is_human is true if and only if the PSD check (alpha in
\* [alpha_min, alpha_max], R^2 >= 0.5), the Levy check (beta in
\* [beta_min, beta_max], KS < 0.15), the Hamiltonian check (mean energy < 0.4,
\* red fraction < 0.05) and the confidence check (confidence >= 0.5) all hold;
\* a failed PSD check alone forces is_human = false.
C11_HumanIffAllFour ==
    fnCall.called =>
        /\ fnCall.result.is_human <=>
              (/\ VerdictPsdHolds
               /\ VerdictLevyHolds
               /\ VerdictHamiltonianHolds
               /\ VerdictConfidenceHolds)
        /\ fnCall.result.psd_pass <=> VerdictPsdHolds
        /\ ~fnCall.result.psd_pass => ~fnCall.result.is_human

C11_Witness ==
    /\ fnCall.called
    /\ ~VerdictPsdHolds
    /\ VerdictLevyHolds
    /\ VerdictHamiltonianHolds
    /\ VerdictConfidenceHolds
    /\ ~fnCall.result.is_human

\* a verdict of human is reached
C11_Human == fnCall.called /\ fnCall.result.is_human

\* C12: for every configuration and every set of analysis results the
\* trust_score returned is a number in [0, 100].
C12_TrustScoreInRange ==
    fnCall.called =>
        /\ fnCall.result.trust_score # NaN
        /\ fnCall.result.trust_score >= 0
        /\ fnCall.result.trust_score <= 100000

\* the same for the configurations whose bands have a positive width
C12_InRangeForProperBands ==
    (/\ fnCall.called
     /\ fnCall.config.alpha_min < fnCall.config.alpha_max
     /\ fnCall.config.beta_min < fnCall.config.beta_max) =>
        /\ fnCall.result.trust_score >= 0
        /\ fnCall.result.trust_score <= 100000

(***************************************************************************)
(* Properties of the Hamiltonian (SpecHamiltonian)                         *)
(***************************************************************************)
Scored == fnCall.called /\ fnCall.fn = "evaluate_hamiltonian"
\* scored against the profile built from the chain itself, as evaluate does
ScoredAsEvaluate == Scored /\ fnCall.own_profile
ScoredChain == outcome.result.value.breadcrumbs
GenesisScore == fnCall.result.scores[1]
\* the breadcrumbs of the chain in the UTC hour of its genesis breadcrumb
InGenesisHour ==
    Cardinality({i \in 1..Len(ScoredChain) :
        hour(ScoredChain[i].timestamp) = hour(ScoredChain[1].timestamp)})

\* C18 (as stated): for the genesis breadcrumb of every chain, scored against
\* the profile built from that chain, all six components are exactly 0.0,
\* h_total is 0.0 and the alert level is Green.
C18_GenesisAllZero ==
    ScoredAsEvaluate =>
        /\ GenesisScore.h_spatial = 0
        /\ GenesisScore.h_temporal = 0
        /\ GenesisScore.h_kinetic = 0
        /\ GenesisScore.h_flock = 0
        /\ GenesisScore.h_contextual = 0
        /\ GenesisScore.h_structure = 0
        /\ GenesisScore.h_total = 0
        /\ GenesisScore.alert_level = "Green"

\* C18 (amended): for the genesis breadcrumb the spatial, kinetic, flock,
\* contextual and structure components are exactly 0.0; the temporal
\* component is computed as for any other breadcrumb, 1 - min(1, 24 a) for
\* the share a >= 0.001 of the chain's breadcrumbs in the genesis's UTC hour
\* (0.8 for a < 0.001), so it is 0.0 exactly when a >= 1/24; h_total is the
\* temporal weight times it, and the level is Green under the default weights.
C18_GenesisFiveZero ==
    ScoredAsEvaluate =>
        /\ GenesisScore.h_spatial = 0
        /\ GenesisScore.h_kinetic = 0
        /\ GenesisScore.h_flock = 0
        /\ GenesisScore.h_contextual = 0
        /\ GenesisScore.h_structure = 0
        /\ GenesisScore.h_temporal = 0
              <=> 24 * InGenesisHour >= Len(ScoredChain)
        /\ GenesisScore.h_temporal =
              (IF 1000 * InGenesisHour < Len(ScoredChain) THEN 800
               ELSE Max2(0, 1000 - (24000 * InGenesisHour)
                                       \div Len(ScoredChain)))
        /\ GenesisScore.h_total =
              (fnCall.weights.temporal * GenesisScore.h_temporal) \div 1000
        /\ fnCall.weights = DefaultWeights =>
              GenesisScore.alert_level = "Green"

\* a chain with fewer than one breadcrumb in 24 in the hour of its genesis:
\* the genesis temporal energy is positive, and with all the weight on the
\* temporal component the genesis breadcrumb is not Green
C18_Witness ==
    /\ ScoredAsEvaluate
    /\ 24 * InGenesisHour < Len(ScoredChain)
    /\ GenesisScore.h_temporal >= 300
    /\ GenesisScore.h_total >= 300
    /\ GenesisScore.alert_level = "Yellow"

\* the level the thresholds 0.3, 0.6, 0.8 give an energy h >= 0, each
\* boundary value belonging to the higher level
LevelOf(h) ==
    CASE h < 300 -> "Green"
      [] 300 <= h /\ h < 600 -> "Yellow"
      [] 600 <= h /\ h < 800 -> "Orange"
      [] h >= 800 -> "Red"

\* C20: from_energy maps every H_total >= 0 to exactly one level, Green below
\* 0.3, Yellow in [0.3, 0.6), Orange in [0.6, 0.8), Red from 0.8 on; after
\* evaluate_hamiltonian every breadcrumb is scored and counted once, so
\* green + yellow + orange + red is the number of breadcrumbs.
C20_AlertLevelsPartition ==
    /\ (fnCall.called /\ fnCall.fn = "from_energy") =>
          /\ fnCall.energy >= 0
          /\ fnCall.level = LevelOf(fnCall.energy)
    /\ Scored =>
          /\ Len(fnCall.result.scores) = Len(ScoredChain)
          /\ \A i \in 1..Len(fnCall.result.scores) :
                /\ fnCall.result.scores[i].index = ScoredChain[i].index
                /\ fnCall.result.scores[i].alert_level
                       = LevelOf(fnCall.result.scores[i].h_total)
          /\ \A level \in {"Green", "Yellow", "Orange", "Red"} :
                Cardinality({i \in 1..Len(fnCall.result.scores) :
                    fnCall.result.scores[i].alert_level = level})
                = (CASE level = "Green" -> fnCall.result.alert_count.green
                     [] level = "Yellow" -> fnCall.result.alert_count.yellow
                     [] level = "Orange" -> fnCall.result.alert_count.orange
                     [] level = "Red" -> fnCall.result.alert_count.red)
          /\ fnCall.result.alert_count.green + fnCall.result.alert_count.yellow
                 + fnCall.result.alert_count.orange
                 + fnCall.result.alert_count.red
             = Len(ScoredChain)

\* a chain scored with breadcrumbs at two levels, one of them with an energy
\* of exactly 0.6, which is Orange
C20_Witness ==
    /\ Scored
    /\ Len(ScoredChain) >= 64
    /\ fnCall.result.alert_count.green > 0
    /\ fnCall.result.alert_count.orange > 0
    /\ \E i \in 1..Len(fnCall.result.scores) :
          /\ fnCall.result.scores[i].h_total = 600
          /\ fnCall.result.scores[i].alert_level = "Orange"
    /\ fnCall.result.alert_count.green + fnCall.result.alert_count.orange
           = Len(ScoredChain)

\* from_energy called on the boundary 0.3 gives Yellow
C20_Boundary ==
    /\ fnCall.called
    /\ fnCall.fn = "from_energy"
    /\ fnCall.energy = 300
    /\ fnCall.level = "Yellow"

(***************************************************************************)
(* Properties of the certificate encoder                                   *)
(***************************************************************************)
CertificateEncoded ==
    fnCall.fn \in {"to_cbor_signable", "to_cbor"} /\ fnCall.encoded.ok
EncodedKeys ==
    [i \in 1..Len(fnCall.encoded.value) |-> fnCall.encoded.value[i][1]]
ExpectedKeys ==
    [i \in 1..12 |-> i - 1]
    \o (IF fnCall.cert.nonce # None THEN <<12>> ELSE <<>>)
    \o (IF fnCall.cert.chain_head_hash # None THEN <<13>> ELSE <<>>)

\* C21: the signable encoding holds keys 0 to 11, key 12 exactly when a
\* nonce is set, key 13 exactly when chain_head_hash is set, in ascending
\* order, and never key 14; a certificate built by from_criticality_result
\* and with_nonce(n) is an active-verification certificate with n under key
\* 12 and the chain head hash passed in under key 13, and one built without
\* with_nonce has no key 12.
C21_SignableLayout ==
    /\ CertificateEncoded => EncodedKeys = ExpectedKeys
    /\ fnCall.built_by = "from_criticality_result" =>
          /\ is_active_verification(fnCall.cert) <=>
                fnCall.nonce_passed # None
          /\ CertificateEncoded =>
                /\ HasKey(fnCall.encoded.value, 13)
                /\ ValueAt(fnCall.encoded.value, 13) =
                      Bytes(hex_decode(fnCall.head_passed).value)
                /\ IF fnCall.nonce_passed # None
                   THEN /\ HasKey(fnCall.encoded.value, 12)
                        /\ ValueAt(fnCall.encoded.value, 12) =
                              Bytes(fnCall.nonce_passed[2])
                   ELSE ~HasKey(fnCall.encoded.value, 12)

\* an encoded certificate that was given the nonce <<3, 4>>
C21_Witness ==
    /\ fnCall.fn = "to_cbor_signable"
    /\ fnCall.encoded.ok
    /\ fnCall.built_by = "from_criticality_result"
    /\ fnCall.nonce_passed = Some(<<3, 4>>)
    /\ EncodedKeys = [i \in 1..14 |-> i - 1]

\* an encoded certificate with neither optional field
C21_WitnessBare ==
    /\ fnCall.fn = "to_cbor_signable"
    /\ fnCall.encoded.ok
    /\ EncodedKeys = [i \in 1..12 |-> i - 1]

\* C22: a certificate encoded by to_cbor and read back equals the original
\* field by field, the optional nonce, chain_head_hash and
\* verifier_signature included.
C22_RoundTrip ==
    (fnCall.fn = "to_cbor" /\ fnCall.encoded.ok) =>
        fnCall.parsed = fnCall.cert

\* a signed certificate was encoded and came back without its signature
C22_SignatureLost ==
    /\ fnCall.fn = "to_cbor"
    /\ fnCall.encoded.ok
    /\ fnCall.cert.verifier_signature # None
    /\ fnCall.parsed.verifier_signature = None

(***************************************************************************)
(* Properties of the session's history                                     *)
(***************************************************************************)
\* C23: a session becomes Complete only from Evaluating, that is after a
\* validate_response on it returned Ok; never from AwaitingResponse or
\* Failed directly.
C23_CompleteOnlyAfterEvaluating ==
    [][(session'.state = Complete /\ session.state # Complete) =>
          session.state = Evaluating]_vars

\* complete() was called on a session no response was ever validated for
C23_CompletedUnanswered ==
    /\ lastOp.op = "complete"
    /\ lastOp.pre = AwaitingResponse
    /\ session.state = Complete

\* C24: a session accepts at most one response; validate_response on a
\* session that is already Evaluating or Complete does not return Ok and
\* does not move the session back to Evaluating.
C24_AtMostOneResponse ==
    (ValidateCalled /\ lastOp.pre \in {Evaluating, Complete}) =>
        /\ lastOp.ret # "Ok"
        /\ lastOp.pre = Complete => session.state # Evaluating

\* a second response with the right nonce, before the deadline, accepted
C24_SecondAccepted ==
    /\ ValidateCalled
    /\ lastOp.pre = Evaluating
    /\ EchoMatches
    /\ lastOp.at <= ChallengeDeadline
    /\ lastOp.ret = "Ok"

(***************************************************************************)
(* Properties of the PSD stage                                             *)
(***************************************************************************)
NoCompleteSegments(result) ==
    /\ ~result.ok
    /\ result.err.kind = "PsdError"
    /\ result.err.msg[1] = "No complete segments"

\* C25: the stated minimum lengths suffice for the PSD stage: a series of
\* n >= 32 displacements, and so a chain of at least 64 breadcrumbs given to
\* evaluate, always has a complete Welch segment and never fails with
\* "No complete segments".
C25_MinimumLengthsSuffice ==
    /\ (fnCall.called /\ fnCall.fn = "compute_psd" /\ fnCall.n >= 32) =>
          /\ fnCall.n_segments >= 1
          /\ ~NoCompleteSegments(fnCall.result)
    /\ (evalCall.called /\ Len(EvaluatedChain.breadcrumbs) >= 64) =>
          ~NoCompleteSegments(evalCall.result)

\* 63 displacements pass the length check and no segment of 64 fits
C25_NoSegmentAt63 ==
    /\ fnCall.called
    /\ fnCall.fn = "compute_psd"
    /\ fnCall.n = 63
    /\ fnCall.segment_len = 64
    /\ NoCompleteSegments(fnCall.result)

\* evaluate on a chain of exactly 64 breadcrumbs stops in the PSD stage
C25_EvaluateAt64 ==
    /\ evalCall.called
    /\ Len(EvaluatedChain.breadcrumbs) = 64
    /\ evalCall.stages = <<"psd">>
    /\ NoCompleteSegments(evalCall.result)

PowersOfTwo == {1, 2, 4, 8, 16, 32, 64, 128, 256, 512, 1024, 2048}
\* the largest power of two of which four fit in n
FourFit(n) == CHOOSE p \in PowersOfTwo : 4 * p <= n /\ 8 * p > n

\* C26: for n >= 32 the segment length is max(32, p), p the largest power
\* of two with 4 * p <= n; it is a power of two and never below 32.
C26_SegmentLength ==
    (fnCall.called /\ fnCall.fn = "optimal_segment_length"
                   /\ fnCall.n >= 32) =>
        /\ fnCall.segment_len = Max2(32, FourFit(fnCall.n))
        /\ fnCall.segment_len \in PowersOfTwo
        /\ fnCall.segment_len >= 32

\* a series of 256 gets segments of 128, of which two fit side by side
C26_TwoFitAt256 ==
    /\ fnCall.called
    /\ fnCall.fn = "optimal_segment_length"
    /\ fnCall.n = 256
    /\ fnCall.segment_len = 128

(***************************************************************************)
(* Properties of the intervals between breadcrumbs                         *)
(***************************************************************************)
\* C27: in a validated chain, timestamps being taken to the millisecond,
\* every dt_seconds is max(t[i+1] - t[i], 0.001) seconds: two breadcrumbs
\* 800 ms apart give 0.8, within one whole second or across two.
C27_IntervalToTheMillisecond ==
    (outcome.called /\ outcome.result.ok) =>
        LET bs == outcome.result.value.breadcrumbs
            ds == outcome.result.value.displacements
        IN \A i \in 1..Len(ds) :
              ds[i].dt_seconds =
                  Max2((bs[i + 1].timestamp - bs[i].timestamp) \div 1000, 1)

\* two breadcrumbs 800 ms apart within one second of the clock, and the
\* interval between them given as the floor of one millisecond
C27_SameSecond ==
    /\ outcome.called
    /\ outcome.result.ok
    /\ Len(outcome.result.value.breadcrumbs) >= 2
    /\ outcome.result.value.breadcrumbs[2].timestamp
           - outcome.result.value.breadcrumbs[1].timestamp = 800000
    /\ outcome.result.value.displacements[1].dt_seconds = 1

\* two breadcrumbs 800 ms apart across a turn of the second, and the
\* interval between them given as a whole second
C27_NextSecond ==
    /\ outcome.called
    /\ outcome.result.ok
    /\ Len(outcome.result.value.breadcrumbs) >= 3
    /\ outcome.result.value.breadcrumbs[3].timestamp
           - outcome.result.value.breadcrumbs[2].timestamp = 800000
    /\ outcome.result.value.displacements[2].dt_seconds = 1000

(***************************************************************************)
(* Properties of the sub-scores                                            *)
(***************************************************************************)
\* C28: each sub-score of the trust score is nonzero only if its check
\* passed: psd_pass false gives psd_score 0, levy_pass false gives
\* levy_score 0, hamiltonian_pass false gives ham_score 0, also when the
\* check fails on the red alerts alone.
C28_NonzeroOnlyIfPassed ==
    fnCall.called =>
        /\ ~fnCall.result.psd_pass => fnCall.result.psd_score = 0
        /\ ~fnCall.result.levy_pass => fnCall.result.levy_score = 0
        /\ ~fnCall.result.hamiltonian_pass => fnCall.result.ham_score = 0

\* C28 as the code has it: psd_score and levy_score are 0 when their check
\* failed; ham_score of a failed check is max(0, (0.4 - mean_energy) / 0.4),
\* which is 0 exactly when mean_energy >= 0.4.
C28_PartialHamiltonianCredit ==
    fnCall.called =>
        /\ ~fnCall.result.psd_pass => fnCall.result.psd_score = 0
        /\ ~fnCall.result.levy_pass => fnCall.result.levy_score = 0
        /\ ~fnCall.result.hamiltonian_pass =>
              /\ fnCall.result.ham_score =
                     (Max2(400 - fnCall.hamiltonian.mean_energy, 0) * 1000)
                         \div 400
              /\ fnCall.result.ham_score = 0 <=>
                     fnCall.hamiltonian.mean_energy >= 400

\* the Hamiltonian check failed on the red alerts alone, under weights
\* other than the default, and the sub-score is not 0
C28_Witness ==
    /\ fnCall.called
    /\ fnCall.config.weights # DefaultWeights
    /\ fnCall.hamiltonian.mean_energy < 400
    /\ fnCall.hamiltonian.alert_count.red * 20 >= Len(fnCall.hamiltonian.scores)
    /\ ~fnCall.result.hamiltonian_pass
    /\ fnCall.result.ham_score > 0
    /\ ~fnCall.result.psd_pass
    /\ fnCall.result.psd_score = 0

(***************************************************************************)
(* Properties of the energies under the default weights                    *)
(***************************************************************************)
ScoredByDefault == Scored /\ fnCall.weights = DefaultWeights

\* C29: under the default weights no breadcrumb of any chain is Red: H_flock
\* is always 0, H_contextual at most 0.6 and every other component at most
\* 1, so H_total <= 0.25 + 0.20 + 0.15 + 0.15 * 0.6 + 0.10 = 0.79 < 0.8;
\* alert_count.red is 0 and hamiltonian_pass is mean_energy < 0.4 alone.
C29_NoRedUnderDefaultWeights ==
    /\ (DefaultWeights.spatial * 1000 + DefaultWeights.temporal * 1000
        + DefaultWeights.kinetic * 1000 + DefaultWeights.flock * 0
        + DefaultWeights.contextual * 600
        + DefaultWeights.structure * 1000) \div 1000 = 790
    /\ Scored =>
          \A i \in 1..Len(fnCall.result.scores) :
             LET score == fnCall.result.scores[i]
             IN /\ score.h_flock = 0
                /\ score.h_contextual \in {0, 600}
                /\ score.h_spatial \in 0..1000
                /\ score.h_temporal \in 0..1000
                /\ score.h_kinetic \in 0..1000
                /\ score.h_structure \in 0..1000
    /\ ScoredByDefault =>
          /\ \A i \in 1..Len(fnCall.result.scores) :
                /\ fnCall.result.scores[i].h_total <= 790
                /\ fnCall.result.scores[i].alert_level # "Red"
          /\ fnCall.result.alert_count.red = 0
          /\ fnCall.result.max_energy < 800
          /\ hamiltonian_pass(fnCall.result) <=>
                fnCall.result.mean_energy < 400

\* the one jump of a chain, by a transition rare in its profile, scored
\* under the default weights: the highest energies, and still Yellow
C29_Witness ==
    /\ ScoredByDefault
    /\ \E i \in 1..Len(fnCall.result.scores) :
          /\ fnCall.result.scores[i].h_spatial >= 900
          /\ fnCall.result.scores[i].h_kinetic >= 900
          /\ fnCall.result.scores[i].h_contextual = 600
          /\ fnCall.result.scores[i].h_total >= 550
          /\ fnCall.result.scores[i].alert_level = "Yellow"

\* a transition the profile of an earlier chain has never seen, scored 0.7
C29_NeverSeen ==
    /\ ScoredByDefault
    /\ ~fnCall.own_profile
    /\ \E i \in 1..Len(fnCall.result.scores) :
          /\ fnCall.result.scores[i].h_kinetic = 700
          /\ fnCall.result.scores[i].h_contextual = 600
          /\ fnCall.result.scores[i].h_spatial >= 900

(***************************************************************************)
(* Properties of the profile evaluate builds                               *)
(***************************************************************************)
EvaluatedProfile == from_chain(EvaluatedChain)
EvaluatedScores == evalCall.result.value.hamiltonian.scores
\* the transitions counted out of cell c, added up over the cells reached
RECURSIVE CountedOutOf(_, _, _)
CountedOutOf(matrix, c, reached) ==
    IF reached = {} THEN 0
    ELSE LET to == CHOOSE x \in reached : TRUE
         IN (IF <<c, to>> \in DOMAIN matrix THEN matrix[<<c, to>>][1] ELSE 0)
            + CountedOutOf(matrix, c, reached \ {to})

\* C30: within evaluate the profile is built from the chain that is scored,
\* so the transition of every consecutive pair is in the transition matrix
\* with a probability in (0, 1], the probabilities out of each source cell
\* sum to 1, and no breadcrumb gets the energy 0.7 of a transition never
\* seen.
C30_EveryTransitionSeen ==
    (evalCall.called /\ evalCall.result.ok) =>
        LET bs == EvaluatedChain.breadcrumbs
            matrix == EvaluatedProfile.transition_matrix
        IN /\ \A i \in 2..Len(bs) :
                 LET key == <<bs[i - 1].location_cell, bs[i].location_cell>>
                 IN /\ key \in DOMAIN matrix
                    /\ matrix[key][1] > 0
                    /\ matrix[key][1] <= matrix[key][2]
           /\ \A key \in DOMAIN matrix :
                 CountedOutOf(matrix, key[1],
                              {k[2] : k \in DOMAIN matrix}) = matrix[key][2]
           /\ \A i \in 1..Len(EvaluatedScores) :
                 EvaluatedScores[i].h_kinetic # 700

\* an evaluation that went through, of a chain with transitions out of two
\* cells, one of them seen once among many
C30_Witness ==
    /\ evalCall.called
    /\ evalCall.result.ok
    /\ Cardinality(DOMAIN EvaluatedProfile.transition_matrix) = 3
    /\ \E key \in DOMAIN EvaluatedProfile.transition_matrix :
          /\ EvaluatedProfile.transition_matrix[key][1] = 1
          /\ EvaluatedProfile.transition_matrix[key][2] > 20
          /\ \E i \in 2..Len(EvaluatedScores) : EvaluatedScores[i].h_kinetic > 0

====
